---- MODULE Spec2Model ----
(***************************************************************************)
(* CarbonCity Insights: the Redis-backed rate limiter and response cache   *)
(* (app/redis_cache.py) and the vehicle-emissions request handlers         *)
(* (app/routes/vehicle_routes.py), as a state machine.                     *)
(*                                                                         *)
(* The Redis server is the shared state: a dictionary from keys to entries *)
(* with a value and a time-to-live.  Every `await self.redis.<op>` of the  *)
(* code is one atomic step at the server; between two awaits of one        *)
(* coroutine any other coroutine, and the clock, may take steps.           *)
(***************************************************************************)
EXTENDS Integers, Sequences, FiniteSets, Bags, TLC

\* ------------------------------------------------------------------ bounds

\* Number of coroutines that may be inside rate_limit at the same time.
MaxInFlight == 2

\* The `limit` argument the callers of rate_limit pass.
Limit == 1

\* The `window` argument (seconds) the callers of rate_limit pass.
Window == 2

\* The (token, endpoint) pairs the callers use: two identities on one
\* endpoint, and one identity on two endpoints.
Pairs ==
    {<<"test_user", "vehicle_emissions">>,
     <<"other_user", "vehicle_emissions">>,
     <<"test_user", "vehicle_emissions/compare">>}

Tokens == {pr[1] : pr \in Pairs}

\* A counter is not incremented past MaxCount (keeps the state space finite).
MaxCount == Limit + 1

\* Redis' TTL replies for a key without expiry and for a missing key.
NoExpiry == 0 - 1

KeyAbsent == 0 - 2

\* ------------------------------------------------------------------- state

VARIABLES
    store,   \* the Redis keyspace: existing key |-> [val, ttl]
    calls,   \* the coroutines inside rate_limit: a bag of [pc, token, endpoint, current, stale]
    g,       \* history per (token, endpoint): the calls of the current counter lifetime
    late,    \* history per (token, endpoint): a second passed between the counter's
             \* creation and its EXPIRE (recorded by TickTimed only)
    reqs,    \* the HTTP requests being handled: a bag of handler coroutines
    ok200,   \* history per token: GET /vehicle_emissions requests received and
             \* answered 200 within the current second
    hist,    \* history per (token, endpoint): the outcomes of the counter lifetime
             \* before the current one (recorded by TickBurst only)
    app,     \* the process: the lifespan's position, RedisCache.redis, the
             \* connections made and closed, whether the store answers
    users,   \* the rows of the users table
    job,     \* the ingestion job: its position, what it has done so far
    stored   \* the records of vehicle_emissions the ingestion job reads and
             \* writes: a bag of [year, vehicle_model_name, vehicle_make_name]

apiVars == <<reqs, ok200>>

extVars == <<hist, app, users, job, stored>>

vars == <<store, calls, g, late, reqs, ok200, hist, app, users, job, stored>>

\* ------------------------------------------------------- the Redis commands

\* TTL key: remaining seconds, -1 without expiry, -2 when the key is missing.
TTL(s, k) == IF k \in DOMAIN s THEN s[k].ttl ELSE KeyAbsent

\* The integer stored at k, 0 when the key is missing (what INCR starts from).
Value(s, k) == IF k \in DOMAIN s THEN s[k].val ELSE 0

\* INCR key: atomic; a missing key is created at 0 (without expiry) first.
StoreIncr(s, k) ==
    IF k \in DOMAIN s
    THEN [s EXCEPT ![k].val = @ + 1]
    ELSE [x \in DOMAIN s \cup {k} |->
            IF x = k THEN [val |-> 1, ttl |-> NoExpiry] ELSE s[x]]

\* EXPIRE key seconds: sets the time-to-live of an existing key; no-op otherwise.
StoreExpire(s, k, seconds) ==
    IF k \in DOMAIN s THEN [s EXCEPT ![k].ttl = seconds] ELSE s

\* One second passes at the server: every time-to-live goes down by one and
\* the keys whose time-to-live reaches zero are removed.
Expiring(s) == {k \in DOMAIN s : s[k].ttl = 1}

StoreTick(s) ==
    [k \in DOMAIN s \ Expiring(s) |->
        IF s[k].ttl = NoExpiry THEN s[k] ELSE [s[k] EXCEPT !.ttl = @ - 1]]

\* -------------------------------------------------------------- rate_limit

\* RateLimitKey with nothing between the identity and the endpoint.
RateLimitKey_NoSeparator(token, endpoint) == "rate_limit:" \o token \o endpoint

\* Faults: a key that leaves out the caller, or the endpoint.
RateLimitKey_NoToken(token, endpoint) == "rate_limit:" \o endpoint

RateLimitKey_NoEndpoint(token, endpoint) == "rate_limit:" \o token

\* key = f"rate_limit:{token}:{endpoint}"
RateLimitKey(token, endpoint) == "rate_limit:" \o token \o ":" \o endpoint

\* Fault: the expiry refreshed by every call (a sliding window).
NeedsExpire_Always(current) == TRUE

\* if current == 1:  (the increment created the counter)
NeedsExpire(current) == current = 1

\* Fault: the limit test off by one.
Exceeds_OffByOne(current, limit) == current >= limit

\* if current > limit:
Exceeds(current, limit) == current > limit

\* No counter lifetime before the current one.
NoHist == [adm |-> 0, rej |-> 0, gap |-> 0]

\* The process while it serves requests: the lifespan is at its yield,
\* redis_cache.connect() has run once, the store answers.
Serving ==
    [phase |-> "serving", redis |-> "client", connects |-> 1, closes |-> 0,
     answers |-> TRUE, closeOnNone |-> 0, error |-> ""]

\* No ingestion job runs.
NoJob == [pc |-> "idle"]

\* Of the current counter lifetime: made, the calls that incremented the
\* counter; adm and rej, those of them that returned normally or raised 429;
\* sets, the EXPIREs applied to it; sinceSet, the seconds since the last one.
FreshHist == [made |-> 0, adm |-> 0, rej |-> 0, sets |-> 0, sinceSet |-> 0, err |-> 0]

KeyOf(c) == RateLimitKey(c.token, c.endpoint)

PairOf(c) == <<c.token, c.endpoint>>

Min(a, b) == IF a < b THEN a ELSE b

Max0(a) == IF a < 0 THEN 0 ELSE a

InFlight == BagToSet(calls)

\* The coroutine c moves on to the record d.
Moved(c, d) == (calls (-) SetToBag({c})) (+) SetToBag({d})

\* Fault: the limit tested before the increment, so that a call over the
\* limit is not counted.
RateLimitIncr_SkipOverLimit(token, endpoint) ==
    LET key == RateLimitKey(token, endpoint)
        after == StoreIncr(store, key)
        current == after[key].val
    IN  /\ BagCardinality(calls) < MaxInFlight
        /\ Value(store, key) < MaxCount
        /\ store' = IF Exceeds(current, Limit) THEN store ELSE after
        /\ calls' = calls (+) SetToBag({
                [pc |-> IF NeedsExpire(current) THEN "expire" ELSE "check",
                 token |-> token, endpoint |-> endpoint, current |-> current,
                 stale |-> FALSE]})
        /\ g' = [g EXCEPT ![<<token, endpoint>>].made = @ + 1]
        /\ UNCHANGED <<late, apiVars, extVars>>

\* current = await self.redis.incr(key)
RateLimitIncr(token, endpoint) ==
    LET key == RateLimitKey(token, endpoint)
        after == StoreIncr(store, key)
        current == after[key].val
    IN  /\ BagCardinality(calls) < MaxInFlight
        /\ Value(store, key) < MaxCount
        /\ store' = after
        /\ calls' = calls (+) SetToBag({
                [pc |-> IF NeedsExpire(current) THEN "expire" ELSE "check",
                 token |-> token, endpoint |-> endpoint, current |-> current,
                 stale |-> FALSE]})
        /\ g' = [g EXCEPT ![<<token, endpoint>>].made = @ + 1]
        /\ UNCHANGED <<late, apiVars, extVars>>

\* Fault: the limit passed where the window belongs.
RateLimitExpire_LimitAsTtl(c) ==
    /\ c.pc = "expire"
    /\ store' = StoreExpire(store, KeyOf(c), Limit)
    /\ calls' = Moved(c, [c EXCEPT !.pc = "check"])
    /\ g' = IF c.stale THEN g
            ELSE [g EXCEPT ![PairOf(c)].sets = Min(@ + 1, 2),
                           ![PairOf(c)].sinceSet = 0]
    /\ UNCHANGED <<late, apiVars, extVars>>

\* await self.redis.expire(key, window)
RateLimitExpire(c) ==
    /\ c.pc = "expire"
    /\ store' = StoreExpire(store, KeyOf(c), Window)
    /\ calls' = Moved(c, [c EXCEPT !.pc = "check"])
    /\ g' = IF c.stale THEN g
            ELSE [g EXCEPT ![PairOf(c)].sets = Min(@ + 1, 2),
                           ![PairOf(c)].sinceSet = 0]
    /\ UNCHANGED <<late, apiVars, extVars>>

\* Fault: a rejected call takes its increment back.
RateLimitCheck_Rollback(c) ==
    /\ c.pc = "check"
    /\ calls' = calls (-) SetToBag({c})
    /\ g' = IF c.stale THEN g
            ELSE IF Exceeds(c.current, Limit)
                 THEN [g EXCEPT ![PairOf(c)].rej = @ + 1]
                 ELSE [g EXCEPT ![PairOf(c)].adm = @ + 1]
    /\ store' = IF Exceeds(c.current, Limit) /\ KeyOf(c) \in DOMAIN store
                THEN [store EXCEPT ![KeyOf(c)].val = @ - 1] ELSE store
    /\ UNCHANGED <<late, apiVars, extVars>>

\* RateLimitCheck that gives a counter it finds without expiry a new one.
RateLimitCheck_Repair(c) ==
    /\ c.pc = "check"
    /\ calls' = calls (-) SetToBag({c})
    /\ g' = IF c.stale THEN g
            ELSE IF Exceeds(c.current, Limit)
                 THEN [g EXCEPT ![PairOf(c)].rej = @ + 1]
                 ELSE [g EXCEPT ![PairOf(c)].adm = @ + 1]
    /\ store' = IF TTL(store, KeyOf(c)) = NoExpiry
                THEN StoreExpire(store, KeyOf(c), Window) ELSE store
    /\ UNCHANGED <<late, apiVars, extVars>>

\* if current > limit: raise HTTPException(429, ...); otherwise return.
\* Either way the coroutine ends and its outcome goes to the caller.
RateLimitCheck(c) ==
    /\ c.pc = "check"
    /\ calls' = calls (-) SetToBag({c})
    /\ g' = IF c.stale THEN g
            ELSE IF Exceeds(c.current, Limit)
                 THEN [g EXCEPT ![PairOf(c)].rej = @ + 1]
                 ELSE [g EXCEPT ![PairOf(c)].adm = @ + 1]
    /\ UNCHANGED <<store, late, apiVars, extVars>>

\* ------------------------------------------------------------------- clock

\* The calls whose counter expires now belong to a past counter lifetime.
Mark(c, gone) == IF KeyOf(c) \in gone THEN [c EXCEPT !.stale = TRUE] ELSE c

\* One second passes.
Elapse ==
    LET gone == Expiring(store)
        marked == {Mark(c, gone) : c \in InFlight}
        copies(d) ==
            LET from == {c \in InFlight : Mark(c, gone) = d}
                n[S \in SUBSET from] ==
                    IF S = {} THEN 0
                    ELSE LET c == CHOOSE x \in S : TRUE
                         IN  calls[c] + n[S \ {c}]
            IN  n[from]
    IN  /\ store' = StoreTick(store)
        /\ calls' = [d \in marked |-> copies(d)]
        /\ g' = [pr \in Pairs |->
                IF RateLimitKey(pr[1], pr[2]) \in gone THEN FreshHist
                ELSE IF TTL(store, RateLimitKey(pr[1], pr[2])) > 0
                THEN [g[pr] EXCEPT !.sinceSet = Min(@ + 1, Window)]
                ELSE g[pr]]

Tick == Elapse /\ UNCHANGED <<late, apiVars, extVars>>

\* The same second, with the delay of the first EXPIRE recorded.
TickTimed ==
    /\ Elapse
    /\ late' = [pr \in Pairs |->
            /\ RateLimitKey(pr[1], pr[2]) \notin Expiring(store)
            /\ \/ late[pr]
               \/ TTL(store, RateLimitKey(pr[1], pr[2])) = NoExpiry]
    /\ UNCHANGED <<apiVars, extVars>>

\* ------------------------------------------------------------ the database

\* Optional values: None, or the value wrapped.
None == <<>>

Some(x) == <<x>>

\* A value of a column that holds a UUID: the UUID object, or its string.
Uuid(x) == [t |-> "uuid", v |-> x]

Str(x) == [t |-> "str", v |-> x]

\* The rows of vehicle_emissions, in ascending id order.
Table ==
    << [id |-> Uuid("123e4567-e89b-12d3-a456-426614174000"),
        vehicle_model_id |-> Uuid("123e4567-e89b-12d3-a456-426614174001"),
        vehicle_make_name |-> "Make A", vehicle_model_name |-> "Model A",
        year |-> 2020, distance_value |-> 100, distance_unit |-> "km",
        carbon_emission_g |-> 150],
       [id |-> Uuid("223e4567-e89b-12d3-a456-426614174000"),
        vehicle_model_id |-> Uuid("223e4567-e89b-12d3-a456-426614174001"),
        vehicle_make_name |-> "Make B", vehicle_model_name |-> "Model B",
        year |-> 2021, distance_value |-> 200, distance_unit |-> "km",
        carbon_emission_g |-> 300] >>

\* ------------------------------------------------------- the response cache

\* The seconds a cache entry lives (REDIS_CACHE_EXPIRE, set by the environment).
CacheExpire == 2

\* serialize_data on a column value: a UUID becomes its string.
SerializeValue(x) == IF x.t = "uuid" THEN Str(x.v) ELSE x

\* serialize_data on a record of vehicle_emissions (a dict).
SerializeRow(r) ==
    [r EXCEPT !.id = SerializeValue(@), !.vehicle_model_id = SerializeValue(@)]

\* serialize_data on a list of records.
SerializeRows(rows) == [i \in DOMAIN rows |-> SerializeRow(rows[i])]

\* serialize_data on the response dict {"data": ..., "next_cursor": ...}.
SerializeData(response) ==
    [data |-> SerializeRows(response.data),
     next_cursor |->
        IF response.next_cursor = None THEN None
        ELSE Some(SerializeValue(response.next_cursor[1]))]

\* json.dumps and json.loads: the JSON text of a value, and back.
JsonDumps(x) == [json |-> x]

JsonLoads(text) == text.json

\* RedisCache.set: SET key json.dumps(serialize_data(value)) EX REDIS_CACHE_EXPIRE
CacheSet(s, key, value) ==
    [k \in DOMAIN s \cup {key} |->
        IF k = key
        THEN [val |-> JsonDumps(SerializeData(value)), ttl |-> CacheExpire]
        ELSE s[k]]

\* RedisCache.get: json.loads(value) if value else None
CacheGet(s, key) == IF key \in DOMAIN s THEN Some(JsonLoads(s[key].val)) ELSE None

\* ----------------------------------------------------- GET /vehicle_emissions

\* The requests a client sends in one second are not more than this.
MaxRequests == 2

\* The token the clients of the HTTP routes send.
Clients == {"test_user"}

\* The requests per window the tests expect /vehicle_emissions to admit.
EmissionsLimit == 10

RECURSIVE DecStr(_)
\* str(n) of a natural number.
DecStr(n) ==
    LET digit == <<"0", "1", "2", "3", "4", "5", "6", "7", "8", "9">>
    IN  IF n < 10 THEN digit[n + 1] ELSE DecStr(n \div 10) \o digit[(n % 10) + 1]

\* Python's truth value of an optional string, and of an optional integer.
TruthyStr(o) == o # None /\ o[1] # ""

TruthyInt(o) == o # None /\ o[1] # 0

\* The query parameters the clients send (the defaults, and a make filter).
EmissionQueries ==
    {[vehicle_make_name |-> m, year |-> None, cursor |-> None, limit |-> 10] :
        m \in {None, Some("Make A")}}

\* cache_key = f"vehicle_emissions_{make or 'all'}_{year or 'all'}_{cursor or 'start'}_{limit}"
EmissionsCacheKey(q) ==
    "vehicle_emissions_"
        \o (IF TruthyStr(q.vehicle_make_name) THEN q.vehicle_make_name[1] ELSE "all")
        \o "_" \o (IF TruthyInt(q.year) THEN DecStr(q.year[1]) ELSE "all")
        \o "_" \o (IF TruthyStr(q.cursor) THEN q.cursor[1] ELSE "start")
        \o "_" \o DecStr(q.limit)

\* SELECT * FROM vehicle_emissions [WHERE ...] ORDER BY id ASC LIMIT :limit + 1
EmissionsRows(q) ==
    LET after(r) ==
            \E j \in DOMAIN Table :
                /\ Table[j].id.v = q.cursor[1]
                /\ \E i \in DOMAIN Table : i > j /\ Table[i] = r
        match(r) ==
            /\ TruthyStr(q.vehicle_make_name) => r.vehicle_make_name = q.vehicle_make_name[1]
            /\ TruthyInt(q.year) => r.year = q.year[1]
            /\ TruthyStr(q.cursor) => after(r)
        found == SelectSeq(Table, match)
    IN  SubSeq(found, 1, Min(Len(found), q.limit + 1))

\* Fault: the cursor taken from the extra row (results[-1]).
EmissionsResponse_CursorOfExtraRow(q) ==
    LET results == EmissionsRows(q)
        full == Len(results) = q.limit + 1
        page == IF full THEN SubSeq(results, 1, Len(results) - 1) ELSE results
        next_cursor == IF full THEN Some(results[Len(results)].id) ELSE None
    IN  IF page # <<>>
        THEN [data |-> SerializeRows(page), next_cursor |-> next_cursor]
        ELSE [data |-> <<>>, next_cursor |-> None]

\* The response built from the rows (next_cursor, the page, the empty case).
EmissionsResponse(q) ==
    LET results == EmissionsRows(q)
        full == Len(results) = q.limit + 1
        page == IF full THEN SubSeq(results, 1, Len(results) - 1) ELSE results
        next_cursor == IF full THEN Some(results[Len(results) - 1].id) ELSE None
    IN  IF page # <<>>
        THEN [data |-> SerializeRows(page), next_cursor |-> next_cursor]
        ELSE [data |-> <<>>, next_cursor |-> None]

Handled == BagToSet(reqs)

\* The handler coroutine r moves on to the record d.
Stepped(r, d) == (reqs (-) SetToBag({r})) (+) SetToBag({d})

\* A request arrives; the handler takes no token parameter, the one the
\* client sends in the query string is dropped.
EmissionsReceive(token, q) ==
    /\ BagCardinality(reqs) < MaxRequests
    /\ ok200[token] <= EmissionsLimit
    /\ reqs' = reqs (+) SetToBag({
            [h |-> "emissions", pc |-> "cache_get", token |-> token, q |-> q,
             ops |-> <<>>, status |-> 0, body |-> None, now |-> TRUE]})
    /\ UNCHANGED <<store, calls, g, late, ok200, extVars>>

\* cached_data = await redis_cache.get(cache_key); if cached_data: return ...
EmissionsCacheGet(r) ==
    LET cached_data == CacheGet(store, EmissionsCacheKey(r.q))
    IN  /\ r.h = "emissions"
        /\ r.pc = "cache_get"
        /\ reqs' = Stepped(r,
                IF cached_data # None
                THEN [r EXCEPT !.pc = "done", !.status = 200,
                               !.body = Some([emissions |-> cached_data[1]]),
                               !.ops = Append(@, "cache_get")]
                ELSE [r EXCEPT !.pc = "db_query", !.ops = Append(@, "cache_get")])
        /\ UNCHANGED <<store, calls, g, late, ok200, extVars>>

\* next_cursor = results[-2]["id"], evaluated when len(results) == limit + 1,
\* raises IndexError on a list shorter than two.
IndexError(q) ==
    /\ Len(EmissionsRows(q)) = q.limit + 1
    /\ Len(EmissionsRows(q)) < 2

\* results = await database.fetch_all(...), and the response built from them;
\* an IndexError is not caught, the request is answered 500.
EmissionsQuery(r) ==
    /\ r.h = "emissions"
    /\ r.pc = "db_query"
    /\ reqs' = Stepped(r,
            IF IndexError(r.q)
            THEN [r EXCEPT !.pc = "done", !.status = 500,
                           !.ops = Append(Append(@, "db_query"), "IndexError")]
            ELSE [r EXCEPT !.pc = "cache_set",
                           !.body = Some(EmissionsResponse(r.q)),
                           !.ops = Append(@, "db_query")])
    /\ UNCHANGED <<store, calls, g, late, ok200, extVars>>

\* await redis_cache.set(cache_key, response); return response
EmissionsCacheSet(r) ==
    /\ r.h = "emissions"
    /\ r.pc = "cache_set"
    /\ store' = CacheSet(store, EmissionsCacheKey(r.q), r.body[1])
    /\ reqs' = Stepped(r,
            [r EXCEPT !.pc = "done", !.status = 200, !.ops = Append(@, "cache_set")])
    /\ UNCHANGED <<calls, g, late, ok200, extVars>>

\* ------------------------------------------------ POST /vehicle_emissions/compare

\* The vehicles the clients ask to compare: the two in the table, and one that
\* is not there.
Vehicles ==
    {[make |-> "Make A", model |-> "Model A", year |-> 2020],
     [make |-> "Make B", model |-> "Model B", year |-> 2021],
     [make |-> "Make A", model |-> "Model B", year |-> 2020]}

\* fetch_one of the compare query: the matching row, or None.
FetchVehicle(v) ==
    LET hits == {i \in DOMAIN Table :
                    /\ Table[i].vehicle_make_name = v.make
                    /\ Table[i].vehicle_model_name = v.model
                    /\ Table[i].year = v.year}
    IN  IF hits = {} THEN None ELSE Some(Table[CHOOSE i \in hits : TRUE])

CompareReceive(token, v1, v2) ==
    /\ BagCardinality(reqs) < MaxRequests
    /\ reqs' = reqs (+) SetToBag({
            [h |-> "compare", pc |-> "fetch_1", token |-> token,
             q |-> [vehicle_1 |-> v1, vehicle_2 |-> v2],
             ops |-> <<>>, status |-> 0, body |-> None, now |-> TRUE]})
    /\ UNCHANGED <<store, calls, g, late, ok200, extVars>>

\* vehicle_1 = await database.fetch_one(...); a missing vehicle raises 404,
\* which the handler's `except Exception` turns into 404 "Not Found".
CompareFetch1(r) ==
    /\ r.h = "compare"
    /\ r.pc = "fetch_1"
    /\ reqs' = Stepped(r,
            IF FetchVehicle(r.q.vehicle_1) = None
            THEN [r EXCEPT !.pc = "done", !.status = 404, !.ops = Append(@, "db_query")]
            ELSE [r EXCEPT !.pc = "fetch_2", !.ops = Append(@, "db_query")])
    /\ UNCHANGED <<store, calls, g, late, ok200, extVars>>

\* vehicle_2 = await database.fetch_one(...), and the comparison.
CompareFetch2(r) ==
    LET vehicle_2 == FetchVehicle(r.q.vehicle_2)
    IN  /\ r.h = "compare"
        /\ r.pc = "fetch_2"
        /\ reqs' = Stepped(r,
                IF vehicle_2 = None \/ vehicle_2[1].carbon_emission_g = 0
                THEN [r EXCEPT !.pc = "done", !.status = 404,
                               !.ops = Append(@, "db_query")]
                ELSE [r EXCEPT !.pc = "done", !.status = 200,
                               !.ops = Append(@, "db_query")])
        /\ UNCHANGED <<store, calls, g, late, ok200, extVars>>

\* The response leaves; ok200 counts the /vehicle_emissions requests of this
\* second that were answered 200.
Respond(r) ==
    /\ r.pc = "done"
    /\ reqs' = reqs (-) SetToBag({r})
    /\ ok200' = IF r.h = "emissions" /\ r.status = 200 /\ r.now
                THEN [ok200 EXCEPT ![r.token] = @ + 1] ELSE ok200
    /\ UNCHANGED <<store, calls, g, late, extVars>>

\* One second passes while requests are handled.
TickApi ==
    LET aged == {[r EXCEPT !.now = FALSE] : r \in Handled}
        copies(d) ==
            LET from == {r \in Handled : [r EXCEPT !.now = FALSE] = d}
                n[S \in SUBSET from] ==
                    IF S = {} THEN 0
                    ELSE LET r == CHOOSE x \in S : TRUE
                         IN  reqs[r] + n[S \ {r}]
            IN  n[from]
    IN  /\ Elapse
        /\ reqs' = [d \in aged |-> copies(d)]
        /\ ok200' = [t \in Tokens |-> 0]
        /\ UNCHANGED <<late, extVars>>

\* ----------------------------------------------------- the cache's clients

\* Values a caller hands to RedisCache.set: strings, integers, floats and
\* UUIDs, nested in lists and dicts (Str and Uuid are defined above).
Integer(x) == [t |-> "int", v |-> x]

Float(x) == [t |-> "float", v |-> x]

List(x) == [t |-> "list", v |-> x]

Dict(x) == [t |-> "dict", v |-> x]

RECURSIVE serialize_data(_)
\* utils.serialize_data: lists and dicts are rebuilt from their serialized
\* items, a UUID becomes str(data), anything else is returned as it is.
serialize_data(data) ==
    CASE data.t = "list" -> List([i \in DOMAIN data.v |-> serialize_data(data.v[i])])
      [] data.t = "dict" -> Dict([k \in DOMAIN data.v |-> serialize_data(data.v[k])])
      [] data.t = "uuid" -> Str(data.v)
      [] OTHER -> data

\* serialize_data that converts a UUID only at the top, not inside containers.
serialize_data_Shallow(data) == IF data.t = "uuid" THEN Str(data.v) ELSE data

\* The values the callers cache.
CacheValues ==
    { Uuid("123e4567-e89b-12d3-a456-426614174000"),
      List(<<Integer(2020), Uuid("223e4567-e89b-12d3-a456-426614174000")>>),
      Dict([key |-> Str("new_value"), distance_value |-> Float("1.5")]),
      Dict([id |-> Uuid("123e4567-e89b-12d3-a456-426614174000"),
            years |-> List(<<Integer(0)>>)]) }

CacheKeys == {"test_key", "vehicle_makes"}

\* A text in the store that another writer put there: the empty string, and
\* one that is not JSON.
RawTexts == {[raw |-> ""], [raw |-> "{not json"]}

\* json.loads accepts the text.
Decodable(text) == "json" \in DOMAIN text

\* `value if value else None` fails: the key is absent, or holds "".
Falsy(s, key) == key \notin DOMAIN s \/ s[key].val = [raw |-> ""]

\* redis SET key text EX seconds
StoreSet(s, key, text, seconds) ==
    [k \in DOMAIN s \cup {key} |->
        IF k = key THEN [val |-> text, ttl |-> seconds] ELSE s[k]]

\* A coroutine of the handlers or of the cache's callers.
Coroutine(h, pc, q, ops, body) ==
    [h |-> h, pc |-> pc, token |-> "", q |-> q, ops |-> ops, status |-> 0,
     body |-> body, now |-> TRUE]

\* RedisCache.set(key, value) is called: serialized_value = serialize_data(value),
\* the text json.dumps gives, and the coroutine awaits the store.
SetCall_Shallow(key, value) ==
    /\ BagCardinality(reqs) < MaxRequests
    /\ reqs' = reqs (+) SetToBag({
            Coroutine("set", "write", [key |-> key, value |-> value], <<>>,
                      Some(JsonDumps(serialize_data_Shallow(value))))})
    /\ UNCHANGED <<store, calls, g, late, ok200, extVars>>

SetCall(key, value) ==
    /\ BagCardinality(reqs) < MaxRequests
    /\ reqs' = reqs (+) SetToBag({
            Coroutine("set", "write", [key |-> key, value |-> value], <<>>,
                      Some(JsonDumps(serialize_data(value))))})
    /\ UNCHANGED <<store, calls, g, late, ok200, extVars>>

\* SetWrite that keeps the expiry of an entry that is already there.
SetWrite_KeepTtl(r) ==
    /\ r.h = "set"
    /\ r.pc = "write"
    /\ store' = StoreSet(store, r.q.key, r.body[1],
                         IF r.q.key \in DOMAIN store THEN store[r.q.key].ttl
                         ELSE CacheExpire)
    /\ reqs' = reqs (-) SetToBag({r})
    /\ UNCHANGED <<calls, g, late, ok200, extVars>>

\* await self.redis.set(key, text, ex=REDIS_CACHE_EXPIRE), and set returns.
SetWrite(r) ==
    /\ r.h = "set"
    /\ r.pc = "write"
    /\ store' = StoreSet(store, r.q.key, r.body[1], CacheExpire)
    /\ reqs' = reqs (-) SetToBag({r})
    /\ UNCHANGED <<calls, g, late, ok200, extVars>>

\* GetOutcome that raises on a key that is not there.
GetOutcome_RaiseOnMiss(s, key) ==
    IF key \notin DOMAIN s THEN [ops |-> <<"redis.get", "KeyError">>, body |-> None]
    ELSE IF Falsy(s, key) THEN [ops |-> <<"redis.get">>, body |-> None]
    ELSE IF Decodable(s[key].val)
         THEN [ops |-> <<"redis.get">>, body |-> CacheGet(s, key)]
         ELSE [ops |-> <<"redis.get", "JSONDecodeError">>, body |-> None]

\* What RedisCache.get(key) does with the store as it is: returns None,
\* returns the decoded value, or raises json.loads' error.
GetOutcome(s, key) ==
    IF Falsy(s, key) THEN [ops |-> <<"redis.get">>, body |-> None]
    ELSE IF Decodable(s[key].val)
         THEN [ops |-> <<"redis.get">>, body |-> CacheGet(s, key)]
         ELSE [ops |-> <<"redis.get", "JSONDecodeError">>, body |-> None]

\* RedisCache.get(key): value = await self.redis.get(key), and the return.
GetCall(key) ==
    /\ BagCardinality(reqs) < MaxRequests
    /\ reqs' = reqs (+) SetToBag({
            Coroutine("get", "done", [key |-> key],
                      GetOutcome(store, key).ops, GetOutcome(store, key).body)})
    /\ UNCHANGED <<store, calls, g, late, ok200, extVars>>

\* The caller of get has its result (or its exception).
GetReturn(r) ==
    /\ r.h = "get"
    /\ r.pc = "done"
    /\ reqs' = reqs (-) SetToBag({r})
    /\ UNCHANGED <<store, calls, g, late, ok200, extVars>>

\* Another client of the store writes a text under a cache key.
ForeignWrite(key, text) ==
    /\ store' = StoreSet(store, key, text, CacheExpire)
    /\ UNCHANGED <<calls, g, late, reqs, ok200, extVars>>

\* ------------------------------- GET /vehicle_emissions/makes, /models, /years

\* Python's truth value of a cached value (`if cached_data:`).
Truthy(x) ==
    CASE x.t \in {"list", "dict"} -> DOMAIN x.v # {}
      [] x.t = "int" -> x.v # 0
      [] OTHER -> x.v # ""

\* The queries the clients send to the three list endpoints.
ListQueries ==
    { [h |-> "makes", make |-> "", model |-> ""],
      [h |-> "models", make |-> "Make A", model |-> ""],
      [h |-> "models", make |-> "Make C", model |-> ""],
      [h |-> "years", make |-> "Make B", model |-> "Model B"] }

\* cache_key = "vehicle_makes", f"vehicle_models_{make}", f"vehicle_years_{make}_{model}"
ListCacheKey(q) ==
    CASE q.h = "makes" -> "vehicle_makes"
      [] q.h = "models" -> "vehicle_models_" \o q.make
      [] q.h = "years" -> "vehicle_years_" \o q.make \o "_" \o q.model

\* The key under which the response is returned: {"makes": ...} and so on.
ListField(q) == q.h

\* SELECT DISTINCT column FROM vehicle_emissions [WHERE ...] ORDER BY column ASC,
\* as the list the handler builds from it (the rows of Table are in ascending
\* order of each of the three columns).
ListRows(q) ==
    LET column(row) ==
            CASE q.h = "makes" -> Str(row.vehicle_make_name)
              [] q.h = "models" -> Str(row.vehicle_model_name)
              [] q.h = "years" -> Integer(row.year)
        where(row) ==
            CASE q.h = "makes" -> TRUE
              [] q.h = "models" -> row.vehicle_make_name = q.make
              [] q.h = "years" -> row.vehicle_make_name = q.make
                                    /\ row.vehicle_model_name = q.model
        first(i) ==
            /\ where(Table[i])
            /\ \A j \in 1..(i - 1) :
                    where(Table[j]) => column(Table[j]) # column(Table[i])
        pick[i \in 0..Len(Table)] ==
            IF i = 0 THEN <<>>
            ELSE IF first(i) THEN Append(pick[i - 1], column(Table[i]))
                 ELSE pick[i - 1]
    IN  List(pick[Len(Table)])

\* A request to one of the list endpoints arrives.
ListReceive(q) ==
    /\ BagCardinality(reqs) < MaxRequests
    /\ reqs' = reqs (+) SetToBag({
            [h |-> q.h, pc |-> "cache_get", token |-> "", q |-> q,
             ops |-> <<>>, status |-> 0, body |-> None, now |-> TRUE]})
    /\ UNCHANGED <<store, calls, g, late, ok200, extVars>>

IsList(r) == r.h \in {"makes", "models", "years"}

\* cached_data = await redis_cache.get(cache_key); if cached_data: return {...}
\* (ops records "cache_found" when get returned an entry, "cache_get" when
\* it returned None).
ListCacheGet(r) ==
    LET got == GetOutcome(store, ListCacheKey(r.q))
    IN  /\ IsList(r)
        /\ r.pc = "cache_get"
        /\ reqs' = Stepped(r,
                IF Len(got.ops) > 1
                THEN [r EXCEPT !.pc = "done", !.status = 500,
                               !.ops = Append(@, "cache_get_error")]
                ELSE IF got.body # None /\ Truthy(got.body[1])
                THEN [r EXCEPT !.pc = "done", !.status = 200,
                               !.body = Some([field |-> ListField(r.q),
                                              items |-> got.body[1]]),
                               !.ops = Append(@, "cache_found")]
                ELSE [r EXCEPT !.pc = "db_query",
                               !.ops = Append(@, IF got.body = None THEN "cache_get"
                                                 ELSE "cache_found")])
        /\ UNCHANGED <<store, calls, g, late, ok200, extVars>>

\* redis_cache.get raises the store's error: the call is outside the
\* handler's try, the request fails with 500.
ListCacheGetFails(r) ==
    /\ IsList(r)
    /\ r.pc = "cache_get"
    /\ reqs' = Stepped(r,
            [r EXCEPT !.pc = "done", !.status = 500,
                      !.ops = Append(@, "cache_get_error")])
    /\ UNCHANGED <<store, calls, g, late, ok200, extVars>>

\* makes = await database.fetch_all(query); makes_list = [...]
ListQuery(r) ==
    /\ IsList(r)
    /\ r.pc = "db_query"
    /\ reqs' = Stepped(r,
            [r EXCEPT !.pc = "cache_set",
                      !.body = Some([field |-> ListField(r.q), items |-> ListRows(r.q)]),
                      !.ops = Append(@, "db_query")])
    /\ UNCHANGED <<store, calls, g, late, ok200, extVars>>

\* await redis_cache.set(cache_key, makes_list); return {"makes": makes_list}
ListCacheSet(r) ==
    /\ IsList(r)
    /\ r.pc = "cache_set"
    /\ store' = StoreSet(store, ListCacheKey(r.q),
                         JsonDumps(serialize_data(r.body[1].items)), CacheExpire)
    /\ reqs' = Stepped(r,
            [r EXCEPT !.pc = "done", !.status = 200, !.ops = Append(@, "cache_set")])
    /\ UNCHANGED <<calls, g, late, ok200, extVars>>

\* redis_cache.set raises the store's error inside the handler's try:
\* `except Exception` answers 404 "... Not Found".
ListCacheSetFails(r) ==
    /\ IsList(r)
    /\ r.pc = "cache_set"
    /\ reqs' = Stepped(r,
            [r EXCEPT !.pc = "done", !.status = 404, !.body = None,
                      !.ops = Append(@, "cache_set_error")])
    /\ UNCHANGED <<store, calls, g, late, ok200, extVars>>

\* In get_vehicle_emissions redis_cache.get raises the store's error: no try
\* is around it, the request fails with 500.
EmissionsCacheGetFails(r) ==
    /\ r.h = "emissions"
    /\ r.pc = "cache_get"
    /\ reqs' = Stepped(r,
            [r EXCEPT !.pc = "done", !.status = 500,
                      !.ops = Append(@, "cache_get_error")])
    /\ UNCHANGED <<store, calls, g, late, ok200, extVars>>

\* In get_vehicle_emissions redis_cache.set raises the store's error: no try
\* is around it, the request fails with 500.
EmissionsCacheSetFails(r) ==
    /\ r.h = "emissions"
    /\ r.pc = "cache_set"
    /\ reqs' = Stepped(r,
            [r EXCEPT !.pc = "done", !.status = 500, !.body = None,
                      !.ops = Append(@, "cache_set_error")])
    /\ UNCHANGED <<store, calls, g, late, ok200, extVars>>

\* ------------------------------------------------------------ the cache keys

\* Queries to the read endpoints that differ in a parameter: a make filter
\* "all" and no make filter, and makes and models with "_" in them.
KeyEmissionQueries ==
    {[vehicle_make_name |-> m, year |-> None, cursor |-> None, limit |-> 10] :
        m \in {None, Some("all")}}

KeyListQueries ==
    { [h |-> "years", make |-> "Make_A", model |-> "B"],
      [h |-> "years", make |-> "Make", model |-> "A_B"],
      [h |-> "models", make |-> "Make_A"  , model |-> ""] }

\* The endpoint and the parameters of the request r, and its cache key.
QueryOf(r) == <<r.h, r.q>>

CacheKeyOf(r) == IF r.h = "emissions" THEN EmissionsCacheKey(r.q) ELSE ListCacheKey(r.q)

\* ----------------------------------------------------------- counter keys

\* Identities and endpoints with and without the separator ":" in them, and
\* the pair of the tests.
IdPairs ==
    { <<"a", "c">>, <<"a:b", "c">>, <<"a", "b:c">>, <<"ab", "c">>, <<"a", "bc">>,
      <<"test_user", "vehicle_emissions">> }

\* The endpoints among them that have no ":" in them.
PlainEndpoints == {"c", "bc", "vehicle_emissions"}

\* The rate limiter before any call, for the callers of IdPairs.
InitIds ==
    /\ store = <<>>
    /\ calls = EmptyBag
    /\ g = [pr \in IdPairs |-> FreshHist]
    /\ late = [pr \in IdPairs |-> FALSE]
    /\ reqs = EmptyBag
    /\ ok200 = [t \in Tokens |-> 0]
    /\ hist = [pr \in Pairs |-> NoHist]
    /\ app = Serving
    /\ users = {}
    /\ job = NoJob
    /\ stored = EmptyBag

\* ------------------------------------------------------- the store failing

\* `await self.redis.incr(key)` raises the store's error (the store cannot be
\* reached): nothing in rate_limit catches it, the call ends by raising it.
RateLimitIncrFails(token, endpoint) ==
    LET pr == <<token, endpoint>>
    IN  /\ BagCardinality(calls) < MaxInFlight
        /\ g' = [g EXCEPT ![pr].made = Min(@ + 1, MaxCount), ![pr].err = Min(@ + 1, 1)]
        /\ UNCHANGED <<store, calls, late, apiVars, extVars>>

\* `await self.redis.expire(key, window)` raises the store's error: the
\* increment stays, the counter has no expiry, the call ends by raising it.
RateLimitExpireFails(c) ==
    /\ c.pc = "expire"
    /\ calls' = calls (-) SetToBag({c})
    /\ g' = IF c.stale THEN g ELSE [g EXCEPT ![PairOf(c)].err = Min(@ + 1, 1)]
    /\ UNCHANGED <<store, late, apiVars, extVars>>

\* The coroutine is cancelled (or the process stops) while it awaits the
\* expire round trip, before the store applies it: the increment stays, the
\* counter has no expiry.
RateLimitCancelled(c) ==
    /\ c.pc = "expire"
    /\ calls' = calls (-) SetToBag({c})
    /\ UNCHANGED <<store, g, late, apiVars, extVars>>

\* The identity and endpoint whose windows are followed across an expiry.
Watched == <<"test_user", "vehicle_emissions">>

\* One second passes; the outcomes of the watched counter, when it expires
\* now, are kept as those of the lifetime before, with the seconds (0, or 1
\* for more) the key has been absent since.
TickBurst ==
    LET key == RateLimitKey(Watched[1], Watched[2])
    IN  /\ Elapse
        /\ hist' = [hist EXCEPT ![Watched] =
                IF key \in Expiring(store)
                THEN [adm |-> g[Watched].adm, rej |-> g[Watched].rej, gap |-> 0]
                ELSE IF key \notin DOMAIN store THEN [@ EXCEPT !.gap = 1] ELSE @]
        /\ UNCHANGED <<late, apiVars, app, users, job, stored>>

\* ------------------------------------------- rate_limit with its arguments

\* The calls made: (token, limit, window, endpoint).
RateLimitArgs ==
    {<<"test_user", Limit, Window, "vehicle_emissions">>,
     <<"other_user", Limit + 1, Window + 1, "vehicle_emissions">>,
     <<"test_user", Limit + 1, Window, "vehicle_emissions/compare">>}

\* HTTPException(status_code=..., detail=...): no headers are passed.
HTTPException(status_code, detail) ==
    [status_code |-> status_code, detail |-> detail, headers |-> None]

\* Fault: the count and the window told to the caller.
RateLimitError_RetryHint(token, limit, window, endpoint, current) ==
    [status_code |-> 429,
     detail |-> "Limit " \o DecStr(limit) \o " reached: " \o DecStr(current),
     headers |-> Some([RetryAfter |-> window])]

\* raise HTTPException(status_code=429, detail="You have reached ...")
RateLimitError(token, limit, window, endpoint, current) ==
    HTTPException(429,
        "You have reached the limit of requests allowed per minute. "
        \o "Please wait one minute and try again later.")

\* What a call of rate_limit gives its caller: the exception raised, or
\* nothing (the function returns None).
RateLimitOutcome(token, limit, window, endpoint, current) ==
    IF Exceeds(current, limit)
    THEN Some(RateLimitError(token, limit, window, endpoint, current))
    ELSE None

Outcomes == BagToSet(reqs)

\* current = await self.redis.incr(key), in a call with its own limit and
\* window.  A counter is taken no further than one past the call's limit.
RateLimitIncrArgs(token, limit, window, endpoint) ==
    LET key == RateLimitKey(token, endpoint)
        after == StoreIncr(store, key)
        current == after[key].val
    IN  /\ BagCardinality(calls) + BagCardinality(reqs) < MaxInFlight
        /\ Value(store, key) <= limit
        /\ store' = after
        /\ calls' = calls (+) SetToBag({
                [pc |-> IF NeedsExpire(current) THEN "expire" ELSE "check",
                 token |-> token, endpoint |-> endpoint, current |-> current,
                 stale |-> FALSE, limit |-> limit, window |-> window]})
        /\ g' = [g EXCEPT ![<<token, endpoint>>].made = @ + 1]
        /\ UNCHANGED <<late, ok200, reqs, extVars>>

\* Fault: the counter given one second less than the window.
RateLimitExpireArgs_ShortTtl(c) ==
    /\ c.pc = "expire"
    /\ store' = StoreExpire(store, KeyOf(c), c.window - 1)
    /\ calls' = Moved(c, [c EXCEPT !.pc = "check"])
    /\ g' = IF c.stale THEN g
            ELSE [g EXCEPT ![PairOf(c)].sets = Min(@ + 1, 2),
                           ![PairOf(c)].sinceSet = 0]
    /\ UNCHANGED <<late, ok200, reqs, extVars>>

\* await self.redis.expire(key, window)
RateLimitExpireArgs(c) ==
    /\ c.pc = "expire"
    /\ store' = StoreExpire(store, KeyOf(c), c.window)
    /\ calls' = Moved(c, [c EXCEPT !.pc = "check"])
    /\ g' = IF c.stale THEN g
            ELSE [g EXCEPT ![PairOf(c)].sets = Min(@ + 1, 2),
                           ![PairOf(c)].sinceSet = 0]
    /\ UNCHANGED <<late, ok200, reqs, extVars>>

\* if current > limit: raise HTTPException(...); otherwise return.  The
\* coroutine ends and its caller has the outcome.
RateLimitRaise(c) ==
    /\ c.pc = "check"
    /\ calls' = calls (-) SetToBag({c})
    /\ g' = IF c.stale THEN g
            ELSE IF Exceeds(c.current, c.limit)
                 THEN [g EXCEPT ![PairOf(c)].rej = @ + 1]
                 ELSE [g EXCEPT ![PairOf(c)].adm = @ + 1]
    /\ reqs' = reqs (+) SetToBag({
            [h |-> "rate_limit", token |-> c.token, endpoint |-> c.endpoint,
             limit |-> c.limit, window |-> c.window, current |-> c.current,
             raised |-> RateLimitOutcome(c.token, c.limit, c.window,
                                         c.endpoint, c.current)]})
    /\ UNCHANGED <<store, late, ok200, extVars>>

\* The caller is done with an outcome.
RateLimitHandled(r) ==
    /\ r.h = "rate_limit"
    /\ reqs' = reqs (-) SetToBag({r})
    /\ UNCHANGED <<store, calls, g, late, ok200, extVars>>

\* ------------------------------------------------------------- the lifespan

\* The process before its lifespan starts: RedisCache.__init__ has set
\* self.redis = None.
Booting ==
    [phase |-> "init", redis |-> "None", connects |-> 0, closes |-> 0,
     answers |-> TRUE, closeOnNone |-> 0, error |-> ""]

\* await database.connect()
LifespanDatabaseConnect ==
    /\ app.phase = "init"
    /\ app' = [app EXCEPT !.phase = "db"]
    /\ UNCHANGED <<store, calls, g, late, apiVars, hist, users, job, stored>>

\* await redis_cache.connect(): self.redis = redis.Redis(...); then the
\* lifespan yields and the application serves.
LifespanRedisConnect ==
    /\ app.phase = "db"
    /\ app' = [app EXCEPT !.phase = "serving", !.redis = "client",
                          !.connects = @ + 1]
    /\ UNCHANGED <<store, calls, g, late, apiVars, hist, users, job, stored>>

\* The error database.connect() raises when the database cannot be reached.
StartupError == "ConnectionRefusedError"

\* What database.disconnect() does on a Database that never connected: the
\* library returns, or fails its assertion, depending on its version.
DisconnectOutcomes == {"returns", "AssertionError"}

\* database.connect() raises: the except clause logs and re-raises, and the
\* finally clause runs with that error pending.  It awaits
\* database.disconnect() and then redis_cache.close(), which is
\* self.redis.close() on self.redis = None and raises AttributeError.  An
\* error raised in the finally clause replaces the pending one.  Nothing was
\* connected and nothing is closed.
LifespanStartFails(disconnect) ==
    /\ app.phase = "init"
    /\ app' = IF disconnect = "returns"
              THEN [app EXCEPT !.phase = "failed", !.closeOnNone = @ + 1,
                               !.error = "AttributeError"]
              ELSE [app EXCEPT !.phase = "failed", !.error = disconnect]
    /\ UNCHANGED <<store, calls, g, late, apiVars, hist, users, job, stored>>

\* Fault: the shutdown leaves the client open.
LifespanShutdown_NoClose ==
    /\ app.phase = "serving"
    /\ app' = [app EXCEPT !.phase = "stopped"]
    /\ UNCHANGED <<store, calls, g, late, apiVars, hist, users, job, stored>>

\* The finally clause after the yield: await database.disconnect(), then
\* await redis_cache.close(), which is await self.redis.close(); self.redis
\* keeps the client.
LifespanShutdown ==
    /\ app.phase = "serving"
    /\ app' = [app EXCEPT !.phase = "stopped", !.closes = @ + 1]
    /\ UNCHANGED <<store, calls, g, late, apiVars, hist, users, job, stored>>

\* Where the client stands in its lifecycle.
Scope ==
    IF app.redis = "None" THEN "not connected"
    ELSE IF app.closes > 0 THEN "closed" ELSE "connected"

\* The methods of RedisCache that talk to the store.
StoreMethods == {"get", "set", "rate_limit"}

\* The store after the round trips of a method: GET reads, SET writes with
\* its expiry, rate_limit increments and gives a new counter its expiry.
AfterMethod(s, op) ==
    IF op = "set"
    THEN StoreSet(s, "test_key", JsonDumps(Str("value")), CacheExpire)
    ELSE IF op = "rate_limit"
    THEN LET key == RateLimitKey(Watched[1], Watched[2])
             after == StoreIncr(s, key)
         IN  IF NeedsExpire(after[key].val)
             THEN StoreExpire(after, key, Window) ELSE after
    ELSE s

\* A method of RedisCache is called, whatever the lifecycle's stage.  With
\* self.redis = None the attribute access self.redis.<command> raises
\* AttributeError before anything is sent.  Otherwise the command goes to the
\* client that connect() made: the methods test nothing else, and the client
\* (its connection pool, like the tests' AsyncMock) serves a command after
\* close() as it did before.
MethodCall(op) ==
    /\ BagCardinality(reqs) < MaxRequests
    /\ op = "rate_limit" =>
            Value(store, RateLimitKey(Watched[1], Watched[2])) < MaxCount
    /\ IF app.redis = "None"
       THEN /\ store' = store
            /\ reqs' = reqs (+) SetToBag({
                    [h |-> op, scope |-> Scope, raised |-> "AttributeError",
                     sent |-> FALSE]})
       ELSE /\ store' = AfterMethod(store, op)
            /\ reqs' = reqs (+) SetToBag({
                    [h |-> op, scope |-> Scope, raised |-> "", sent |-> TRUE]})
    /\ UNCHANGED <<calls, g, late, ok200, extVars>>

\* The caller has the result (or the exception) of the method.
MethodReturn(r) ==
    /\ r.h \in StoreMethods
    /\ reqs' = reqs (-) SetToBag({r})
    /\ UNCHANGED <<store, calls, g, late, ok200, extVars>>

\* One second passes at the store.
TickStore ==
    /\ store' = StoreTick(store)
    /\ UNCHANGED <<calls, g, late, apiVars, extVars>>

\* ------------------------------------------------- the store not answering

\* From now on the store answers no command (the commands and their replies
\* are lost on the way).  connect() passes the client no socket_timeout and
\* no method wraps a round trip in a timeout, so nothing ends a wait.
StoreGoesSilent ==
    /\ app.answers
    /\ app' = [app EXCEPT !.answers = FALSE]
    /\ UNCHANGED <<store, calls, g, late, apiVars, hist, users, job, stored>>

\* rate_limit is called and awaits self.redis.incr(key), unanswered.
RateLimitIncrUnanswered(token, endpoint) ==
    /\ ~app.answers
    /\ BagCardinality(calls) < MaxInFlight
    /\ calls' = calls (+) SetToBag({
            [pc |-> "incr", token |-> token, endpoint |-> endpoint,
             current |-> 0, stale |-> FALSE]})
    /\ UNCHANGED <<store, g, late, apiVars, extVars>>

\* get is called and awaits self.redis.get(key), unanswered.
GetUnanswered(key) ==
    /\ ~app.answers
    /\ BagCardinality(reqs) < MaxRequests
    /\ reqs' = reqs (+) SetToBag({
            Coroutine("get", "read", [key |-> key], <<>>, None)})
    /\ UNCHANGED <<store, calls, g, late, ok200, extVars>>

\* The next step of a rate_limit coroutine: the expire round trip, when the
\* store answers it, or the limit test, which needs no round trip.
RateLimitStep(c) ==
    \/ app.answers /\ RateLimitExpire(c)
    \/ RateLimitCheck(c)

\* The next step of a set or get coroutine: the SET round trip, when the
\* store answers it, or the return of a get that has its answer.
CacheStep(r) ==
    \/ app.answers /\ SetWrite(r)
    \/ GetReturn(r)

\* ------------------------------------------- the pages of /vehicle_emissions

\* The page sizes the clients ask for: `limit: int = Query(10, le=100)` has
\* no lower bound, 0 is accepted.
PageLimits == {0, 1, 2}

\* The cursors sent: none, or the id of a record.
PageCursors == {None} \cup {Some(Table[i].id.v) : i \in DOMAIN Table}

\* The queries of the clients that page through the table.
PageQueries ==
    {[vehicle_make_name |-> m, year |-> y, cursor |-> c, limit |-> n] :
        m \in {None, Some("Make A"), Some("NonExistentMake")},
        y \in {None, Some(2021)},
        c \in PageCursors,
        n \in PageLimits}

\* A client sends its next page request once the one before is answered;
\* the cache holds at most one entry then.
PageReceive(token, q) ==
    /\ reqs = EmptyBag
    /\ Cardinality(DOMAIN store) <= 1
    /\ EmissionsReceive(token, q)

\* ------------------------------------------------------------ POST /register

\* The registrations are not more than this (keeps the users table finite).
MaxUsers == 3

\* The payloads the clients send: two usernames and two emails.
UserCreates ==
    {[username |-> u, email |-> e] :
        u \in {"test_user", "other_user"},
        e \in {"test@example.com", "other@example.com"}}

\* SELECT * FROM users WHERE username = :username OR email = :email
ExistingUser(table, user) ==
    {row \in table : row.username = user.username \/ row.email = user.email}

\* The row INSERT INTO users (username, email, hashed_password) adds; id is
\* SERIAL.
NewRow(table, user) ==
    [id |-> Cardinality(table) + 1, username |-> user.username,
     email |-> user.email]

\* A request arrives; `known` tells whether its username or email was
\* registered by then.
RegisterReceive(user) ==
    /\ BagCardinality(reqs) < MaxRequests
    /\ Cardinality(users) < MaxUsers
    /\ reqs' = reqs (+) SetToBag({
            [h |-> "register", pc |-> "select", user |-> user,
             known |-> ExistingUser(users, user) # {}, status |-> 0,
             detail |-> ""]})
    /\ UNCHANGED <<store, calls, g, late, ok200, extVars>>

\* existing_user = await database.fetch_one(...); if existing_user: raise
\* HTTPException(400, "Username or email already registered")
RegisterSelect(r) ==
    /\ r.h = "register"
    /\ r.pc = "select"
    /\ reqs' = Stepped(r,
            IF ExistingUser(users, r.user) # {}
            THEN [r EXCEPT !.pc = "done", !.status = 400,
                           !.detail = "Username or email already registered"]
            ELSE [r EXCEPT !.pc = "insert"])
    /\ UNCHANGED <<store, calls, g, late, ok200, extVars>>

\* Fault: a users table without the UNIQUE constraints.
RegisterInsert_NoUnique(r) ==
    /\ r.h = "register"
    /\ r.pc = "insert"
    /\ users' = users \cup {NewRow(users, r.user)}
    /\ reqs' = Stepped(r,
            [r EXCEPT !.pc = "done", !.status = 200,
                      !.detail = "User registered successfully"])
    /\ UNCHANGED <<store, calls, g, late, ok200, hist, app, job, stored>>

\* await database.execute(INSERT ...); return {"message": "User registered
\* successfully"}.  username and email are UNIQUE: the insert of a name or
\* an email that another request registered meanwhile raises the database's
\* error, which nothing catches, and the request is answered 500.
RegisterInsert(r) ==
    /\ r.h = "register"
    /\ r.pc = "insert"
    /\ IF ExistingUser(users, r.user) # {}
       THEN /\ users' = users
            /\ reqs' = Stepped(r, [r EXCEPT !.pc = "done", !.status = 500])
       ELSE /\ users' = users \cup {NewRow(users, r.user)}
            /\ reqs' = Stepped(r,
                    [r EXCEPT !.pc = "done", !.status = 200,
                              !.detail = "User registered successfully"])
    /\ UNCHANGED <<store, calls, g, late, ok200, hist, app, job, stored>>

\* The response leaves.
RegisterRespond(r) ==
    /\ r.h = "register"
    /\ r.pc = "done"
    /\ reqs' = reqs (-) SetToBag({r})
    /\ UNCHANGED <<store, calls, g, late, ok200, extVars>>

\* --------------------------------------- fetch_and_store_vehicle_emissions

\* The make the provider lists.
MakeName == "Make A"

\* The models the provider lists for it: "year" is read with .get and may be
\* missing (None); "name" is read with ["name"].
ModelA == [id |-> "model-a", name |-> Some("Model A"), year |-> Some(2020)]

ModelB == [id |-> "model-b", name |-> Some("Model B"), year |-> None]

Malformed == [id |-> "model-c", name |-> None, year |-> Some(2021)]

\* What fetch_vehicle_models returns: response.json() on status 200, and []
\* on any other status or on a RequestException.
ModelResponses == {<<ModelA, ModelB>>, <<ModelB, ModelA>>, <<Malformed, ModelA>>, <<>>}

\* The statuses of the provider's answer to POST /estimates: created, request
\* limit reached, anything else (a RequestException ends the same way).
EstimateStatuses == {201, 401, 500}

\* How send_notification ends: the mail is accepted, or an SMTP error or a
\* refused connection is caught and logged.
SmtpOutcomes == {"sent", "logged"}

\* The record of a model as the table holds it.
Triple(model) ==
    [year |-> model.year, vehicle_model_name |-> model.name[1],
     vehicle_make_name |-> MakeName]

\* SELECT COUNT(*) FROM vehicle_emissions WHERE year = :year AND
\* vehicle_model_name = :model_name AND vehicle_make_name = :make_name.
\* In SQL `year = NULL` is true for no row.
DuplicateCount(table, model) ==
    IF model.year = None THEN 0 ELSE CopiesIn(Triple(model), table)

\* The job as `python vehicle_data_service.py` starts it.
StartJob ==
    [pc |-> "connect", feed |-> <<>>, i |-> 0, connected |-> FALSE,
     checks |-> 0, fetched |-> 0, inserts |-> 0, notified |-> 0,
     emails |-> 0, error |-> ""]

\* The job after the model at job.i: the next model of the list, or the end
\* of the loops.
NextModel(j) ==
    IF j.i < Len(j.feed) THEN [j EXCEPT !.pc = "model", !.i = @ + 1]
    ELSE [j EXCEPT !.pc = "disconnect"]

JobUnchanged == UNCHANGED <<store, calls, g, late, apiVars, hist, app, users>>

\* await database.connect()
JobConnect ==
    /\ job.pc = "connect"
    /\ job' = [job EXCEPT !.pc = "makes", !.connected = TRUE]
    /\ UNCHANGED stored
    /\ JobUnchanged

\* database.connect() raises: it stands before the try, the error leaves
\* the function.
JobConnectFails ==
    /\ job.pc = "connect"
    /\ job' = [job EXCEPT !.pc = "exit", !.error = "connect"]
    /\ UNCHANGED stored
    /\ JobUnchanged

\* vehicle_makes = await fetch_vehicle_makes(): the list, or [] when the
\* request failed, and then the loop has nothing to do.
JobFetchMakes(ok) ==
    /\ job.pc = "makes"
    /\ job' = [job EXCEPT !.pc = IF ok THEN "models" ELSE "disconnect"]
    /\ UNCHANGED stored
    /\ JobUnchanged

\* vehicle_models = await fetch_vehicle_models(make_id)
JobFetchModels(response) ==
    /\ job.pc = "models"
    /\ job' = IF response = <<>> THEN [job EXCEPT !.pc = "disconnect"]
              ELSE [job EXCEPT !.pc = "model", !.feed = response, !.i = 1]
    /\ UNCHANGED stored
    /\ JobUnchanged

\* process_vehicle_model reads the model: model["data"]["attributes"]["name"]
\* raises KeyError when the name is missing; fetch_and_store_vehicle_emissions
\* catches it and goes on to disconnect.
JobReadModel ==
    /\ job.pc = "model"
    /\ job' = IF job.feed[job.i].name = None
              THEN [job EXCEPT !.pc = "disconnect", !.error = "KeyError"]
              ELSE [job EXCEPT !.pc = "check"]
    /\ UNCHANGED stored
    /\ JobUnchanged

\* if await check_duplicate_entry(year, model_name, make_name): return.
\* check_duplicate_entry returns COUNT(*) > 0, and False when the query
\* raised PostgresError.
JobCheckDuplicate(dbok) ==
    LET is_duplicate == dbok /\ DuplicateCount(stored, job.feed[job.i]) > 0
    IN  /\ job.pc = "check"
        /\ job' = IF is_duplicate
                  THEN NextModel([job EXCEPT !.checks = @ + 1])
                  ELSE [job EXCEPT !.pc = "estimate", !.checks = @ + 1]
        /\ UNCHANGED stored
        /\ JobUnchanged

\* estimate_data = await fetch_emission_estimate(model_id): the attributes on
\* 201; on 401 send_notification is called next; None otherwise, and the
\* model is skipped.
JobFetchEstimate(status) ==
    /\ job.pc = "estimate"
    /\ job' = IF status = 201 THEN [job EXCEPT !.pc = "insert", !.fetched = @ + 1]
              ELSE IF status = 401 THEN [job EXCEPT !.pc = "notify", !.fetched = @ + 1]
              ELSE NextModel([job EXCEPT !.fetched = @ + 1])
    /\ UNCHANGED stored
    /\ JobUnchanged

\* Fault: the run goes on with the next model after the notification.
JobNotify_GoOn(outcome) ==
    /\ job.pc = "notify"
    /\ job' = NextModel([job EXCEPT !.notified = @ + 1,
                    !.emails = IF outcome = "sent" THEN @ + 1 ELSE @])
    /\ UNCHANGED stored
    /\ JobUnchanged

\* send_notification(...); raise SystemExit(...).  SystemExit is no
\* Exception: no except clause on the way takes it, there is no finally, the
\* process ends.
JobNotify(outcome) ==
    /\ job.pc = "notify"
    /\ job' = [job EXCEPT !.pc = "exit", !.error = "SystemExit",
                    !.notified = @ + 1,
                    !.emails = IF outcome = "sent" THEN @ + 1 ELSE @]
    /\ UNCHANGED stored
    /\ JobUnchanged

\* await insert_vehicle_emission_record(...): the row is inserted, or the
\* PostgresError is caught and logged.
JobInsert(dbok) ==
    /\ job.pc = "insert"
    /\ job' = NextModel([job EXCEPT !.inserts = @ + 1])
    /\ stored' = IF dbok THEN stored (+) SetToBag({Triple(job.feed[job.i])})
                 ELSE stored
    /\ JobUnchanged

\* await database.disconnect(), after the try statement.
JobDisconnect ==
    /\ job.pc = "disconnect"
    /\ job' = [job EXCEPT !.pc = "done", !.connected = FALSE]
    /\ UNCHANGED stored
    /\ JobUnchanged

\* ------------------------------------------------ the admissions per second

\* The call whose admissions are counted: (token, limit, window, endpoint).
Counted == <<"test_user", Limit + 1, Window, "vehicle_emissions/compare">>

CountedPair == <<Counted[1], Counted[4]>>

\* The admissions of one key second by second: `seen`, the calls of the
\* current counter that had incremented it within the limit when the current
\* second began; `past`, the calls that incremented a counter within the
\* limit in each of the window - 1 seconds before the current one.
NoAdmissions == [seen |-> 0, past |-> [i \in 1..(Window - 1) |-> 0]]

\* The calls that incremented the counted key within the limit in the
\* current second (a call is admitted exactly when its INCR returns a value
\* within the limit).
AdmittedNow == Min(g[CountedPair].made, Counted[2]) - hist[CountedPair].seen

\* One second passes; the admissions of the second that ends are kept.
TickWindow ==
    /\ Elapse
    /\ hist' = [hist EXCEPT ![CountedPair] =
            [seen |-> IF RateLimitKey(Counted[1], Counted[4]) \in Expiring(store)
                      THEN 0 ELSE Min(g[CountedPair].made, Counted[2]),
             past |-> SubSeq(<<AdmittedNow>> \o @.past, 1, Window - 1)]]
    /\ UNCHANGED <<late, apiVars, app, users, job, stored>>

\* --------------------------- the errors of POST /vehicle_emissions/compare

\* A record of a vehicle that emits nothing.
ElectricRow ==
    [id |-> Uuid("323e4567-e89b-12d3-a456-426614174000"),
     vehicle_model_id |-> Uuid("323e4567-e89b-12d3-a456-426614174001"),
     vehicle_make_name |-> "Make E", vehicle_model_name |-> "Model E",
     year |-> 2022, distance_value |-> 100, distance_unit |-> "km",
     carbon_emission_g |-> 0]

\* The table the comparisons are run against.
CompareRows == Table \o <<ElectricRow>>

\* The vehicles asked for: the ones of Vehicles and the one that emits nothing.
CompareVehicles ==
    Vehicles \cup {[make |-> "Make E", model |-> "Model E", year |-> 2022]}

\* fetch_one of the compare query on that table: the matching row, or None.
FetchCompared(v) ==
    LET hits == {i \in DOMAIN CompareRows :
                    /\ CompareRows[i].vehicle_make_name = v.make
                    /\ CompareRows[i].vehicle_model_name = v.model
                    /\ CompareRows[i].year = v.year}
    IN  IF hits = {} THEN None ELSE Some(CompareRows[CHOOSE i \in hits : TRUE])

\* The HTTPException a raise statement inside the handler's try raises for
\* the payload q, or None when the comparison is computed.
CompareRaises(q) ==
    IF FetchCompared(q.vehicle_1) = None
    THEN Some(HTTPException(404, "Vehicle 1 not found."))
    ELSE IF FetchCompared(q.vehicle_2) = None
    THEN Some(HTTPException(404, "Vehicle 2 not found."))
    ELSE IF FetchCompared(q.vehicle_2)[1].carbon_emission_g = 0
    THEN Some(HTTPException(400, "Vehicle 2 emissions data invalid."))
    ELSE None

\* except Exception as e: raise HTTPException(status_code=404,
\* detail="Not Found") from e.  HTTPException is an Exception: the clause
\* takes the errors raised inside the try as well.
CompareExcept(e) == HTTPException(404, "Not Found")

\* A compare request arrives.
CompareAsk(token, v1, v2) ==
    /\ BagCardinality(reqs) < MaxRequests
    /\ reqs' = reqs (+) SetToBag({
            [h |-> "compare", pc |-> "try", token |-> token,
             q |-> [vehicle_1 |-> v1, vehicle_2 |-> v2],
             raised |-> None, status |-> 0, body |-> None, now |-> TRUE]})
    /\ UNCHANGED <<store, calls, g, late, ok200, extVars>>

\* The try statement of compare_vehicles: the two fetches and the
\* comparison, or the error raised on the way, as the except clause passes
\* it on.
CompareTry(r) ==
    LET e == CompareRaises(r.q)
    IN  /\ r.h = "compare"
        /\ r.pc = "try"
        /\ reqs' = Stepped(r,
                IF e = None
                THEN [r EXCEPT !.pc = "done", !.status = 200]
                ELSE [r EXCEPT !.pc = "done", !.raised = e,
                               !.status = CompareExcept(e[1]).status_code,
                               !.body = Some([detail |-> CompareExcept(e[1]).detail])])
        /\ UNCHANGED <<store, calls, g, late, ok200, extVars>>

\* ----------------------------------------------------------- specification

Init ==
    /\ store = <<>>
    /\ calls = EmptyBag
    /\ g = [pr \in Pairs |-> FreshHist]
    /\ late = [pr \in Pairs |-> FALSE]
    /\ reqs = EmptyBag
    /\ ok200 = [t \in Tokens |-> 0]
    /\ hist = [pr \in Pairs |-> NoHist]
    /\ app = Serving
    /\ users = {}
    /\ job = NoJob
    /\ stored = EmptyBag

Next ==
    \/ \E pr \in Pairs : RateLimitIncr(pr[1], pr[2])
    \/ \E c \in InFlight : RateLimitExpire(c)
    \/ \E c \in InFlight : RateLimitCheck(c)
    \/ Tick

Spec == Init /\ [][Next]_vars

NextTimed ==
    \/ \E pr \in Pairs : RateLimitIncr(pr[1], pr[2])
    \/ \E c \in InFlight : RateLimitExpire(c)
    \/ \E c \in InFlight : RateLimitCheck(c)
    \/ TickTimed

SpecTimed == Init /\ [][NextTimed]_vars

\* The HTTP handlers as the routes module has them.
NextApi ==
    \/ \E t \in Clients, q \in EmissionQueries : EmissionsReceive(t, q)
    \/ \E r \in Handled : EmissionsCacheGet(r)
    \/ \E r \in Handled : EmissionsQuery(r)
    \/ \E r \in Handled : EmissionsCacheSet(r)
    \/ \E t \in Clients, v1 \in Vehicles, v2 \in Vehicles : CompareReceive(t, v1, v2)
    \/ \E r \in Handled : CompareFetch1(r)
    \/ \E r \in Handled : CompareFetch2(r)
    \/ \E r \in Handled : Respond(r)
    \/ TickApi

SpecApi == Init /\ [][NextApi]_vars

\* The rate limiter with a store that can fail a round trip.
NextFail ==
    \/ \E pr \in Pairs : RateLimitIncr(pr[1], pr[2])
    \/ \E pr \in Pairs : RateLimitIncrFails(pr[1], pr[2])
    \/ \E c \in InFlight : RateLimitExpire(c)
    \/ \E c \in InFlight : RateLimitExpireFails(c)
    \/ \E c \in InFlight : RateLimitCheck(c)
    \/ Tick

SpecFail == Init /\ [][NextFail]_vars

\* Callers of RedisCache.set and RedisCache.get on a store shared with
\* another writer.
NextCache ==
    \/ \E key \in CacheKeys, value \in CacheValues : SetCall(key, value)
    \/ \E r \in Handled : SetWrite(r)
    \/ \E key \in CacheKeys : GetCall(key)
    \/ \E r \in Handled : GetReturn(r)
    \/ \E key \in CacheKeys, text \in RawTexts : ForeignWrite(key, text)
    \/ Tick

SpecCache == Init /\ [][NextCache]_vars

\* The list endpoints on a store that can fail a round trip.
NextRead ==
    \/ \E q \in ListQueries : ListReceive(q)
    \/ \E r \in Handled : ListCacheGet(r)
    \/ \E r \in Handled : ListCacheGetFails(r)
    \/ \E r \in Handled : ListQuery(r)
    \/ \E r \in Handled : ListCacheSet(r)
    \/ \E r \in Handled : ListCacheSetFails(r)
    \/ \E r \in Handled : Respond(r)
    \/ TickApi

SpecRead == Init /\ [][NextRead]_vars

\* GET /vehicle_emissions on a store that can fail a round trip.
NextEmissions ==
    \/ \E t \in Clients, q \in EmissionQueries : EmissionsReceive(t, q)
    \/ \E r \in Handled : EmissionsCacheGet(r)
    \/ \E r \in Handled : EmissionsCacheGetFails(r)
    \/ \E r \in Handled : EmissionsQuery(r)
    \/ \E r \in Handled : EmissionsCacheSet(r)
    \/ \E r \in Handled : EmissionsCacheSetFails(r)
    \/ \E r \in Handled : Respond(r)
    \/ TickApi

SpecEmissions == Init /\ [][NextEmissions]_vars

\* The read endpoints asked queries whose parameters differ.
NextKeys ==
    \/ \E t \in Clients, q \in KeyEmissionQueries : EmissionsReceive(t, q)
    \/ \E r \in Handled : EmissionsCacheGet(r)
    \/ \E r \in Handled : EmissionsQuery(r)
    \/ \E r \in Handled : EmissionsCacheSet(r)
    \/ \E q \in KeyListQueries : ListReceive(q)
    \/ \E r \in Handled : ListCacheGet(r)
    \/ \E r \in Handled : ListQuery(r)
    \/ \E r \in Handled : ListCacheSet(r)
    \/ \E r \in Handled : Respond(r)
    \/ TickApi

SpecKeys == Init /\ [][NextKeys]_vars

\* The rate limiter called for identities and endpoints of any spelling,
\* within one window.
NextIds ==
    \/ \E pr \in IdPairs : RateLimitIncr(pr[1], pr[2])
    \/ \E c \in InFlight : RateLimitExpire(c)
    \/ \E c \in InFlight : RateLimitCheck(c)

SpecIds == InitIds /\ [][NextIds]_vars

\* The rate limiter with calls that can stop between increment and expire.
NextCrash ==
    \/ \E pr \in Pairs : RateLimitIncr(pr[1], pr[2])
    \/ \E c \in InFlight : RateLimitExpire(c)
    \/ \E c \in InFlight : RateLimitCancelled(c)
    \/ \E c \in InFlight : RateLimitCheck(c)
    \/ Tick

SpecCrash == Init /\ [][NextCrash]_vars

\* The rate limiter with the outcomes of the window before kept.
NextBurst ==
    \/ \E pr \in Pairs : RateLimitIncr(pr[1], pr[2])
    \/ \E c \in InFlight : RateLimitExpire(c)
    \/ \E c \in InFlight : RateLimitCheck(c)
    \/ TickBurst

SpecBurst == Init /\ [][NextBurst]_vars

\* rate_limit called with several limits and windows, its outcomes kept.
NextArgs ==
    \/ \E a \in RateLimitArgs : RateLimitIncrArgs(a[1], a[2], a[3], a[4])
    \/ \E c \in InFlight : RateLimitExpireArgs(c)
    \/ \E c \in InFlight : RateLimitRaise(c)
    \/ \E r \in Outcomes : RateLimitHandled(r)
    \/ Tick

SpecArgs == Init /\ [][NextArgs]_vars

\* The state of the process before its lifespan starts.
InitBoot ==
    /\ store = <<>>
    /\ calls = EmptyBag
    /\ g = [pr \in Pairs |-> FreshHist]
    /\ late = [pr \in Pairs |-> FALSE]
    /\ reqs = EmptyBag
    /\ ok200 = [t \in Tokens |-> 0]
    /\ hist = [pr \in Pairs |-> NoHist]
    /\ app = Booting
    /\ users = {}
    /\ job = NoJob
    /\ stored = EmptyBag

\* The methods of RedisCache called at any stage of the lifespan.
NextScope ==
    \/ LifespanDatabaseConnect
    \/ LifespanRedisConnect
    \/ \E disconnect \in DisconnectOutcomes : LifespanStartFails(disconnect)
    \/ LifespanShutdown
    \/ \E op \in StoreMethods : MethodCall(op)
    \/ \E r \in Outcomes : MethodReturn(r)
    \/ TickStore

SpecScope == InitBoot /\ [][NextScope]_vars

\* The lifespan around the handlers.  The server runs the handlers only
\* between the lifespan's yield and its shutdown, which it starts once the
\* requests in flight have been answered.
NextLife ==
    \/ LifespanDatabaseConnect
    \/ LifespanRedisConnect
    \/ \E disconnect \in DisconnectOutcomes : LifespanStartFails(disconnect)
    \/ reqs = EmptyBag /\ LifespanShutdown
    \/ /\ app.phase = "serving"
       /\ \E t \in Clients, q \in EmissionQueries : EmissionsReceive(t, q)
    \/ \E r \in Handled : EmissionsCacheGet(r)
    \/ \E r \in Handled : EmissionsQuery(r)
    \/ \E r \in Handled : EmissionsCacheSet(r)
    \/ \E r \in Handled : Respond(r)
    \/ TickApi

SpecLife == InitBoot /\ [][NextLife]_vars

\* rate_limit, set and get on a store that stops answering.
NextSilent ==
    \/ StoreGoesSilent
    \/ app.answers /\ RateLimitIncr(Watched[1], Watched[2])
    \/ RateLimitIncrUnanswered(Watched[1], Watched[2])
    \/ \E c \in InFlight : RateLimitStep(c)
    \/ \E value \in CacheValues : SetCall("test_key", value)
    \/ app.answers /\ GetCall("test_key")
    \/ GetUnanswered("test_key")
    \/ \E r \in Handled : CacheStep(r)
    \/ Tick

SpecSilent == Init /\ [][NextSilent]_vars

\* A client paging through /vehicle_emissions.
NextPage ==
    \/ \E t \in Clients, q \in PageQueries : PageReceive(t, q)
    \/ \E r \in Handled : EmissionsCacheGet(r)
    \/ \E r \in Handled : EmissionsQuery(r)
    \/ \E r \in Handled : EmissionsCacheSet(r)
    \/ \E r \in Handled : Respond(r)
    \/ TickApi

SpecPage == Init /\ [][NextPage]_vars

\* Clients registering, their requests handled side by side.
NextRegister ==
    \/ \E user \in UserCreates : RegisterReceive(user)
    \/ \E r \in Handled : RegisterSelect(r)
    \/ \E r \in Handled : RegisterInsert(r)
    \/ \E r \in Handled : RegisterRespond(r)

SpecRegister == Init /\ [][NextRegister]_vars

\* One run of the ingestion job, on a table that holds some of the models
\* already, each once.
InitJob ==
    /\ store = <<>>
    /\ calls = EmptyBag
    /\ g = [pr \in Pairs |-> FreshHist]
    /\ late = [pr \in Pairs |-> FALSE]
    /\ reqs = EmptyBag
    /\ ok200 = [t \in Tokens |-> 0]
    /\ hist = [pr \in Pairs |-> NoHist]
    /\ app = Serving
    /\ users = {}
    /\ job = StartJob
    /\ stored \in {SetToBag(S) : S \in SUBSET {Triple(ModelA), Triple(ModelB)}}

NextJob ==
    \/ JobConnect
    \/ JobConnectFails
    \/ \E ok \in BOOLEAN : JobFetchMakes(ok)
    \/ \E response \in ModelResponses : JobFetchModels(response)
    \/ JobReadModel
    \/ \E dbok \in BOOLEAN : JobCheckDuplicate(dbok)
    \/ \E status \in EstimateStatuses : JobFetchEstimate(status)
    \/ \E outcome \in SmtpOutcomes : JobNotify(outcome)
    \/ \E dbok \in BOOLEAN : JobInsert(dbok)
    \/ JobDisconnect

SpecJob == InitJob /\ [][NextJob]_vars

\* rate_limit on one key, the admissions counted second by second.
InitWindow ==
    /\ store = <<>>
    /\ calls = EmptyBag
    /\ g = [pr \in Pairs |-> FreshHist]
    /\ late = [pr \in Pairs |-> FALSE]
    /\ reqs = EmptyBag
    /\ ok200 = [t \in Tokens |-> 0]
    /\ hist = [pr \in Pairs |-> NoAdmissions]
    /\ app = Serving
    /\ users = {}
    /\ job = NoJob
    /\ stored = EmptyBag

NextWindow ==
    \/ RateLimitIncrArgs(Counted[1], Counted[2], Counted[3], Counted[4])
    \/ \E c \in InFlight : RateLimitExpireArgs(c)
    \/ \E c \in InFlight : RateLimitRaise(c)
    \/ \E r \in Outcomes : RateLimitHandled(r)
    \/ TickWindow

SpecWindow == InitWindow /\ [][NextWindow]_vars

\* POST /vehicle_emissions/compare with vehicles that are missing or emit
\* nothing.
NextCompare ==
    \/ \E t \in Clients, v1 \in CompareVehicles, v2 \in CompareVehicles :
            CompareAsk(t, v1, v2)
    \/ \E r \in Handled : CompareTry(r)
    \/ \E r \in Handled : Respond(r)
    \/ TickApi

SpecCompare == Init /\ [][NextCompare]_vars

\* ------------------------------------------------------ derived quantities

KeyOfPair(pr) == RateLimitKey(pr[1], pr[2])

\* The counter of a (token, endpoint) pair as a client sees it: <<TTL, value>>.
Counter(s, pr) == <<TTL(s, KeyOfPair(pr)), Value(s, KeyOfPair(pr))>>

\* The calls in flight that incremented the current counter of the pair.
Fresh(pr) == {c \in InFlight : PairOf(c) = pr /\ ~c.stale}

\* How many coroutines the records of S stand for.
RECURSIVE Copies(_)
Copies(S) ==
    IF S = {} THEN 0
    ELSE LET c == CHOOSE x \in S : TRUE IN calls[c] + Copies(S \ {c})

Quiet(pr) == \A c \in InFlight : PairOf(c) # pr

\* A step of rate_limit made for the pair: its increment, its expire or its
\* limit test (the history of the pair records each of them).
Acts(pr) ==
    \/ g'[pr].made = g[pr].made + 1
    \/ g'[pr].sets = g[pr].sets + 1
    \/ g'[pr].adm = g[pr].adm + 1
    \/ g'[pr].rej = g[pr].rej + 1

\* ------------------------------------------------------------------ claims

\* C1: of the N calls made on one (token, endpoint) pair against an absent
\* counter, in any interleaving of their increments, expires and limit tests,
\* the ones that return normally are exactly those whose increment returned
\* 1..limit and the ones that raise 429 exactly those whose increment returned
\* more: once all N have ended, min(N, limit) were admitted and the other
\* N - min(N, limit) rejected.
C1_ExactlyLimitAdmitted ==
    \A pr \in Pairs :
        LET low == {c \in Fresh(pr) : c.current <= Limit}
            high == {c \in Fresh(pr) : c.current > Limit}
            admits == Min(g[pr].made, Limit)
        IN  /\ \A c \in Fresh(pr) : c.current \in 1..g[pr].made /\ calls[c] = 1
            /\ \A c, d \in Fresh(pr) : c.current = d.current => c = d
            /\ g[pr].adm = admits - Copies(low)
            /\ g[pr].rej = (g[pr].made - admits) - Copies(high)

\* More calls than the limit were made on one counter and all have ended.
C1_Witness ==
    \E pr \in Pairs :
        /\ Quiet(pr)
        /\ g[pr].made > Limit
        /\ g[pr].adm = Limit
        /\ g[pr].rej = g[pr].made - Limit

\* C2: calls made by one token never read or change the counter of another
\* token on the same endpoint, and whether a call is rejected depends on the
\* calls of its own token alone: a token is rejected only after it made more
\* than `limit` calls itself, however many calls other tokens made.
C2_TokensIndependent ==
    /\ [](\A pr \in Pairs :
            /\ g[pr].rej > 0 => g[pr].made > Limit
            /\ Quiet(pr) => g[pr].adm = Min(g[pr].made, Limit))
    /\ [][\A a, b \in Pairs :
            (a[1] # b[1] /\ a[2] = b[2] /\ Acts(a))
                => Counter(store', b) = Counter(store, b)]_vars

\* test_user was rejected on vehicle_emissions and other_user's first `limit`
\* calls on it were all admitted.
C2_Witness ==
    /\ g[<<"test_user", "vehicle_emissions">>].rej > 0
    /\ g[<<"other_user", "vehicle_emissions">>].adm = Limit
    /\ g[<<"other_user", "vehicle_emissions">>].rej = 0

\* C3: calls made by a token for one endpoint never change its counter for
\* another endpoint nor the outcome of its calls there: it is rejected on an
\* endpoint only after more than `limit` calls on that endpoint.
C3_EndpointsIndependent ==
    /\ [](\A pr \in Pairs :
            /\ g[pr].adm + g[pr].rej <= g[pr].made
            /\ g[pr].rej <= Max0(g[pr].made - Limit))
    /\ [][\A a, b \in Pairs :
            (a[1] = b[1] /\ a[2] # b[2] /\ Acts(a))
                => Counter(store', b) = Counter(store, b)]_vars

\* test_user was rejected on vehicle_emissions and its calls on
\* vehicle_emissions/compare are still admitted.
C3_Witness ==
    /\ g[<<"test_user", "vehicle_emissions">>].rej > 0
    /\ g[<<"test_user", "vehicle_emissions/compare">>].adm = Limit
    /\ g[<<"test_user", "vehicle_emissions/compare">>].rej = 0

\* C4 (as amended): once `window` seconds have passed since the EXPIRE of the
\* call that created a counter was applied, the counter is absent (TTL -2);
\* the next call on the key starts a new window and is admitted, also when
\* the count of the previous window was over the limit.  A counter without
\* expiry exists only while its creating call has its EXPIRE still to come.
C4_WindowReset ==
    \A pr \in Pairs :
        LET k == KeyOfPair(pr)
        IN  /\ TTL(store, k) = NoExpiry =>
                \E c \in Fresh(pr) : c.pc = "expire" /\ c.current = 1
            /\ TTL(store, k) > 0 =>
                /\ TTL(store, k) = Window - g[pr].sinceSet
                /\ g[pr].sinceSet < Window
            /\ k \notin DOMAIN store =>
                /\ TTL(store, k) = KeyAbsent
                /\ g[pr].made = 0
            /\ (g[pr].made > 0 /\ \A c \in Fresh(pr) : c.current # 1) =>
                g[pr].adm > 0

\* A call of the new window was admitted while a call that went over the
\* limit in the window before is still on its way.
C4_Witness ==
    \E pr \in Pairs :
        /\ g[pr].adm > 0
        /\ \E c \in InFlight : PairOf(c) = pr /\ c.stale /\ c.current > Limit

\* C4 as stated: `window` seconds after a counter's creation, with no further
\* call on the key, the counter is absent.  (The seconds since the creation
\* are at least the seconds since the EXPIRE, plus one when the EXPIRE came a
\* second or more after the increment.)
C4_Orig ==
    \A pr \in Pairs :
        LET elapsed == g[pr].sinceSet + (IF late[pr] THEN 1 ELSE 0)
        IN  (g[pr].made = 1 /\ Quiet(pr) /\ elapsed >= Window)
                => TTL(store, KeyOfPair(pr)) = KeyAbsent

\* C5: a call that raises 429 has incremented the counter by exactly one and
\* nothing takes that back: the limit test changes nothing in the store, and
\* no step but the expiry of the key lowers or removes a counter.
C5_RejectedCallCounts ==
    /\ [](\A pr \in Pairs :
            g[pr].rej > 0 => Value(store, KeyOfPair(pr)) > Limit)
    /\ [][\A pr \in Pairs :
            g'[pr].made = g[pr].made + 1 =>
                Value(store', KeyOfPair(pr)) = Value(store, KeyOfPair(pr)) + 1]_vars
    /\ [][\A pr \in Pairs :
            (g'[pr].rej = g[pr].rej + 1 \/ g'[pr].adm = g[pr].adm + 1) =>
                store' = store]_vars
    /\ [][\A k \in DOMAIN store :
            (k \notin DOMAIN store' \/ store'[k].val < store[k].val) =>
                (store[k].ttl = 1 /\ k \notin DOMAIN store')]_vars

\* A call was rejected and the counter holds it: limit + 1 calls, value limit + 1.
C5_Witness ==
    \E pr \in Pairs :
        /\ Quiet(pr)
        /\ g[pr].rej > 0
        /\ g[pr].made = Limit + 1
        /\ Value(store, KeyOfPair(pr)) = Limit + 1

C7_CounterCountsCalls ==
    /\ [](\A pr \in Pairs :
            /\ Value(store, KeyOfPair(pr)) = g[pr].made
            /\ g[pr].made = g[pr].adm + g[pr].rej + Copies(Fresh(pr))
            /\ KeyOfPair(pr) \in DOMAIN store => store[KeyOfPair(pr)].val >= 1)
    /\ [][\A pr \in Pairs :
            Value(store', KeyOfPair(pr)) < Value(store, KeyOfPair(pr)) =>
                /\ TTL(store, KeyOfPair(pr)) = 1
                /\ TTL(store', KeyOfPair(pr)) = KeyAbsent]_vars

\* A counter that has counted admitted and rejected calls.
C7_Witness ==
    \E pr \in Pairs :
        /\ Value(store, KeyOfPair(pr)) = Limit + 1
        /\ g[pr].adm = Limit
        /\ g[pr].rej = 1

\* C8 as stated: every request a data endpoint handles starts with the rate
\* limiter, invoked exactly once, before the cache lookup, the database query
\* and the cache write.
C8_Orig ==
    \A r \in Handled :
        r.ops # <<>> =>
            /\ r.ops[1] = "rate_limit"
            /\ Cardinality({i \in DOMAIN r.ops : r.ops[i] = "rate_limit"}) = 1

\* C9 as stated: GET /vehicle_emissions answers 200 to at most 10 requests of
\* one token within one window (here: within one second).
C9_Orig == \A t \in Tokens : ok200[t] <= EmissionsLimit

\* C10 as stated: a rate_limit call during which the store fails does not
\* raise the store's error to its caller.
C10_Orig == \A pr \in Pairs : g[pr].err = 0

\* The step starts the coroutine r / ends the coroutine r.
Started(r) == CopiesIn(r, reqs') > CopiesIn(r, reqs)

Ended(r) == CopiesIn(r, reqs') < CopiesIn(r, reqs)

RECURSIVE Stringified(_)
\* The value v with every UUID in it replaced by its string.
Stringified(v) ==
    IF v.t = "uuid" THEN [v EXCEPT !.t = "str"]
    ELSE IF v.t \in {"list", "dict"}
         THEN [v EXCEPT !.v = [x \in DOMAIN v.v |-> Stringified(v.v[x])]]
         ELSE v

RECURSIVE HasUuid(_)
HasUuid(v) ==
    \/ v.t = "uuid"
    \/ v.t \in {"list", "dict"} /\ \E x \in DOMAIN v.v : HasUuid(v.v[x])

\* C13 as stated: a get on a key whose text cannot be decoded returns the
\* absent value; no get call ends by raising the decode error.
C13_Orig == \A r \in Handled : r.h = "get" => r.ops = <<"redis.get">>

\* C14: a get on a key that is not in the store (never written, or expired)
\* returns None, raises nothing and leaves the store as it is.
C14_GetMissReturnsNone ==
    [][\A r \in BagToSet(reqs') :
            (r.h = "get" /\ Started(r) /\ r.q.key \notin DOMAIN store) =>
                /\ r.body = None
                /\ r.ops = <<"redis.get">>
                /\ store' = store]_vars

C14_Witness ==
    \E r \in Handled :
        /\ r.h = "get"
        /\ r.body = None
        /\ r.ops = <<"redis.get">>
        /\ r.q.key \notin DOMAIN store
        /\ DOMAIN store # {}

C16_LastWriteWins ==
    /\ [](\A k \in DOMAIN store \cap CacheKeys :
            \/ store[k].val \in RawTexts
            \/ \E v \in CacheValues : store[k].val = JsonDumps(Stringified(v)))
    /\ [][\A r \in Handled :
            (r.h = "set" /\ Ended(r)) =>
                /\ store'[r.q.key] = [val |-> JsonDumps(Stringified(r.q.value)),
                                      ttl |-> CacheExpire]
                /\ \A k \in DOMAIN store \ {r.q.key} :
                        k \in DOMAIN store' /\ store'[k] = store[k]
                /\ DOMAIN store' = DOMAIN store \cup {r.q.key}]_vars

C16_Witness ==
    \E r \in Handled, v \in CacheValues :
        /\ r.h = "set"
        /\ r.q.value # v
        /\ r.q.key \in DOMAIN store
        /\ store[r.q.key] = [val |-> JsonDumps(Stringified(v)), ttl |-> 1]

\* The operation op is in the trace of the request r.
Did(r, op) == \E i \in DOMAIN r.ops : r.ops[i] = op

\* The step is one of the request r itself (not the passing of a second,
\* which only marks r as a request of an earlier second).
Took(r) == Ended(r) /\ ~Started([r EXCEPT !.now = FALSE])

\* C11 as stated: a cache lookup that meets an unavailable store counts as a
\* miss: the request goes on to the database query and is not answered with
\* an error.
C11_Orig ==
    \A r \in Handled :
        Did(r, "cache_get_error") => (r.status # 500 /\ Did(r, "db_query"))

\* C12 as stated: a request whose cache write failed after the database query
\* succeeded is answered 200 with the query result.
C12_Orig ==
    \A r \in Handled :
        (Did(r, "cache_set_error") /\ r.pc = "done") =>
            (r.status = 200 /\ r.body # None)

\* C17 as stated: a request whose cache lookup found the entry of its key
\* never writes the store, so the entry's time-to-live only runs down under
\* read traffic.
C17_Orig ==
    [][\A r \in Handled :
            (IsList(r) /\ Did(r, "cache_found") /\ Took(r)) =>
                store' = store]_vars

\* C18 as stated: two requests to the read endpoints that differ in the
\* endpoint or in a parameter have different cache keys.
C18_Orig ==
    \A r1 \in Handled, r2 \in Handled :
        QueryOf(r1) # QueryOf(r2) => CacheKeyOf(r1) # CacheKeyOf(r2)

\* C19 (as amended): the counter key is rate_limit:<identity>:<endpoint>, and
\* two calls that differ in identity or endpoint, both with an endpoint that
\* has no ":" in it, use different counter keys.
C19_KeyInjectiveOnPlainEndpoints ==
    \A c1 \in InFlight :
        /\ PairOf(c1) = <<"test_user", "vehicle_emissions">> =>
                KeyOf(c1) = "rate_limit:test_user:vehicle_emissions"
        /\ KeyOf(c1) \in DOMAIN store
        /\ \A c2 \in InFlight :
                ( /\ PairOf(c1) # PairOf(c2)
                  /\ c1.endpoint \in PlainEndpoints
                  /\ c2.endpoint \in PlainEndpoints ) => KeyOf(c1) # KeyOf(c2)

C19_Witness ==
    \E c1 \in InFlight, c2 \in InFlight :
        /\ PairOf(c1) = <<"a:b", "c">>
        /\ PairOf(c2) = <<"a", "c">>
        /\ c1.current = 1
        /\ c2.current = 1
        /\ {KeyOf(c1), KeyOf(c2)} \subseteq DOMAIN store

\* C19 as stated: two calls that differ in identity or endpoint use
\* different counter keys.
C19_Orig ==
    \A c1 \in InFlight, c2 \in InFlight :
        PairOf(c1) # PairOf(c2) => KeyOf(c1) # KeyOf(c2)

\* The counter of pr is in the store without expiry, and no call in flight is
\* about to give it one.
Orphan(pr) ==
    /\ KeyOfPair(pr) \in DOMAIN store
    /\ TTL(store, KeyOfPair(pr)) = NoExpiry
    /\ \A c \in InFlight : KeyOf(c) = KeyOfPair(pr) => c.pc # "expire"

\* C20: a counter left without expiry by a call that stopped after its
\* increment returned 1 is never repaired: it stays in the store without
\* expiry through every later step, its value never goes down, and every
\* later call on it gets a value above 1 and goes to the limit check without
\* setting an expiry.
C20_OrphanCounterStays ==
    [][\A pr \in Pairs :
            Orphan(pr) =>
                /\ Orphan(pr)'
                /\ Value(store', KeyOfPair(pr)) >= Value(store, KeyOfPair(pr))
                /\ \A c \in BagToSet(calls') :
                        (PairOf(c) = pr /\ CopiesIn(c, calls') > CopiesIn(c, calls)) =>
                            (c.current > 1 /\ c.pc = "check")]_vars

C20_Witness ==
    \E pr \in Pairs :
        /\ Orphan(pr)
        /\ Quiet(pr)
        /\ g[pr].sets = 0
        /\ g[pr].rej > 0
        /\ Value(store, KeyOfPair(pr)) = MaxCount

\* C21: the window is tumbling: each counter lifetime admits up to `limit`
\* calls whatever the lifetime before it admitted, so that across one expiry
\* up to 2 x limit calls (and never more) are admitted.
C21_TumblingWindow ==
    /\ hist[Watched].adm <= Limit
    /\ hist[Watched].adm + g[Watched].adm <= 2 * Limit
    /\ \A pr \in Pairs :
            /\ g[pr].adm <= Limit
            /\ Quiet(pr) => g[pr].adm = Min(g[pr].made, Limit)

\* `limit` calls admitted and none rejected in the window that ended, and
\* `limit` more admitted and none rejected in the window that began in the
\* second in which the counter expired.
C21_Witness ==
    /\ hist[Watched] = [adm |-> Limit, rej |-> 0, gap |-> 0]
    /\ g[Watched].adm = Limit
    /\ g[Watched].rej = 0
    /\ g[Watched].sinceSet = 0

\* C22 (as amended): the lifetime of a counter is anchored at the EXPIRE of the
\* call that created it: a counter gets its expiry once, as `window`, when it
\* had none; from then on the expiry only counts down with the clock, an
\* increment on the existing counter leaves it as it is, and the counter is
\* destroyed in the second that completes `window` seconds since that EXPIRE,
\* however many increments arrived meanwhile.
C22_AnchoredAtExpire ==
    [][\A pr \in Pairs :
        LET k == KeyOfPair(pr)
            t == TTL(store, k)
            u == TTL(store', k)
        IN  /\ (k \in DOMAIN store /\ g'[pr].made = g[pr].made + 1) => u = t
            /\ (t = NoExpiry /\ u # NoExpiry) => u = Window
            /\ t > 0 => (u = t \/ u = t - 1 \/ (t = 1 /\ u = KeyAbsent))
            /\ (k \in DOMAIN store /\ k \notin DOMAIN store') =>
                    g[pr].sinceSet = Window - 1]_vars

\* A counter in its last second whose EXPIRE came a second or more after the
\* increment that created it, and that was incremented again since.
C22_Witness ==
    \E pr \in Pairs :
        /\ late[pr]
        /\ g[pr].made > 1
        /\ TTL(store, KeyOfPair(pr)) = 1
        /\ g[pr].sinceSet = Window - 1

\* C22 as stated: a counter that is present was created less than `window`
\* seconds ago, whatever the delay of its EXPIRE.
C22_Orig ==
    \A pr \in Pairs :
        KeyOfPair(pr) \in DOMAIN store =>
            g[pr].sinceSet + (IF late[pr] THEN 1 ELSE 0) < Window

\* C23: every rejection of rate_limit is the same error value: status 429, one
\* fixed detail message and no headers (so no retry hint), whatever the token,
\* endpoint, limit, window and count of the call; a call raises it exactly
\* when its count is over its limit, and otherwise returns nothing.
C23_OneRejectionValue ==
    \A r \in Outcomes :
        /\ (r.raised # None) = (r.current > r.limit)
        /\ r.raised # None =>
            /\ r.raised[1].status_code = 429
            /\ r.raised[1].detail =
                    "You have reached the limit of requests allowed per minute. "
                    \o "Please wait one minute and try again later."
            /\ r.raised[1].headers = None
            /\ \A s \in Outcomes : s.raised # None => s.raised = r.raised

\* Two rejections at once that differ in token, limit, window and count.
C23_Witness ==
    \E r, s \in Outcomes :
        /\ r.raised # None
        /\ s.raised # None
        /\ r.token # s.token
        /\ r.limit # s.limit
        /\ r.window # s.window
        /\ r.current # s.current

\* C24 as stated: a call of get, set or rate_limit made before connect() or
\* after close() fails with an error and performs no store operation.
C24_Orig ==
    \A r \in Outcomes :
        (r.h \in StoreMethods /\ r.scope # "connected") =>
            (r.raised # "" /\ ~r.sent)

C26_Orig ==
    /\ \A c \in InFlight : ENABLED RateLimitStep(c)
    /\ \A r \in Handled : ENABLED CacheStep(r)

\* C27 as stated: a request to a list endpoint whose cache lookup found an
\* entry under its key, an empty list included, is answered from the entry
\* and queries the database no more.
C27_Orig ==
    \A r \in Handled :
        (IsList(r) /\ Did(r, "cache_found")) => ~Did(r, "db_query")

\* The records of the table that match the filters of q and come after its
\* cursor, in ascending id order.
Matching(q) ==
    LET ok(r) ==
            /\ q.vehicle_make_name # None =>
                    r.vehicle_make_name = q.vehicle_make_name[1]
            /\ q.year # None => r.year = q.year[1]
            /\ q.cursor # None =>
                    \E j \in DOMAIN Table :
                        /\ Table[j].id.v = q.cursor[1]
                        /\ \E i \in DOMAIN Table : i > j /\ Table[i] = r
    IN  SelectSeq(Table, ok)

\* The request was answered from the database (not from the cache).
FromDatabase(r) ==
    r.h = "emissions" /\ r.pc = "done" /\ Did(r, "db_query")

\* C28 as stated: whatever page size up to 100, filters and cursor the client
\* sends, the request is answered 200 with at most `limit` records, all of
\* them matching records, in ascending id order.
C28_Orig ==
    \A r \in Handled :
        FromDatabase(r) =>
            /\ r.status = 200
            /\ r.body # None
            /\ Len(r.body[1].data) <= r.q.limit
            /\ r.body[1].data =
                    SerializeRows(SubSeq(Matching(r.q), 1, Len(r.body[1].data)))

\* C29: in a response computed from the database the page is the first
\* matching records; next_cursor is null exactly when no matching record
\* comes after the last one of the page, and otherwise it is the id of the
\* last record of the page.
C29_NextCursor ==
    \A r \in Handled :
        (FromDatabase(r) /\ r.status = 200) =>
            LET page == r.body[1].data
                next_cursor == r.body[1].next_cursor
                all == Matching(r.q)
            IN  /\ page = SerializeRows(SubSeq(all, 1, Len(page)))
                /\ (next_cursor = None) = (Len(all) = Len(page))
                /\ next_cursor # None =>
                        /\ page # <<>>
                        /\ next_cursor[1] = all[Len(page)].id

\* A page that ends before the last matching record, asked for with a
\* cursor or without, and answered with the id of its last record.
C29_Witness ==
    \E r \in Handled :
        /\ FromDatabase(r)
        /\ r.status = 200
        /\ r.q.limit = 1
        /\ r.body[1].next_cursor = Some(Table[1].id)
        /\ Len(r.body[1].data) = 1

\* C30: a registration whose username or email was registered when the
\* request arrived is answered 400 with the detail 'Username or email already
\* registered', and no step of it changes the users table (the table changes
\* only by the insert of a request whose username and email were free when it
\* arrived and still are); at every moment no two users share a username or
\* an email.
C30_DuplicateRejected ==
    /\ [](\A r \in Handled :
            (r.h = "register" /\ r.pc = "done" /\ (r.known \/ r.status = 400)) =>
                /\ r.status = 400
                /\ r.detail = "Username or email already registered")
    /\ [](\A a \in users, b \in users :
            a # b => (a.username # b.username /\ a.email # b.email))
    /\ [][users' # users =>
            \E r \in Handled :
                /\ r.h = "register"
                /\ r.pc = "insert"
                /\ ~r.known
                /\ ExistingUser(users, r.user) = {}
                /\ users' = users \cup {NewRow(users, r.user)}]_vars

\* A registration of an email that is taken, under a new username, was
\* answered 400 while the other username is registered too.
C30_Witness ==
    \E r \in Handled :
        /\ r.h = "register"
        /\ r.known
        /\ r.status = 400
        /\ \A row \in users : row.username # r.user.username
        /\ Cardinality(users) = 1

\* C31 as stated: whatever the provider and the database answer during the
\* run, no two stored records share (year, vehicle_model_name,
\* vehicle_make_name).
C31_Orig ==
    \A t \in BagToSet(stored) : CopiesIn(t, stored) <= 1

\* C32 (as amended): when the provider answers an estimate request with 401,
\* send_notification is called exactly once and at most one email is sent
\* (one unless the SMTP exchange fails, which is logged), and the run stops:
\* from that response on no model is fetched, checked or inserted, and the
\* run that has left by SystemExit stays as it is.
C32_StopsOn401 ==
    /\ [](/\ job.notified <= 1
          /\ job.emails <= job.notified
          /\ job.error = "SystemExit" => (job.pc = "exit" /\ job.notified = 1)
          /\ job.pc = "notify" => job.notified = 0)
    /\ [][job.pc = "notify" =>
            /\ job'.pc = "exit"
            /\ job'.notified = 1
            /\ job'.checks = job.checks
            /\ job'.fetched = job.fetched
            /\ job'.inserts = job.inserts
            /\ stored' = stored]_vars
    /\ [][job.pc = "exit" => (job' = job /\ stored' = stored)]_vars

\* The run was stopped by a 401 with a model of the list still to come, and
\* its one email went out.
C32_Witness ==
    /\ job.pc = "exit"
    /\ job.error = "SystemExit"
    /\ job.emails = 1
    /\ job.i < Len(job.feed)

\* C32 as stated: a run stopped by the 401 has sent exactly one email.
C32_Orig ==
    job.error = "SystemExit" => job.emails = 1

\* C39 as stated: a run that has ended, in whatever way, after it connected
\* has released its database connection.
C39_Orig ==
    job.pc \in {"done", "exit"} => ~job.connected

\* C33 as stated: for the same query parameters the body of a response to
\* GET /vehicle_emissions served from the cache is the body the miss that
\* filled the entry returned, as JSON: the same data and next_cursor under
\* the same top-level keys.
C33_Orig ==
    \A miss \in Handled, hit \in Handled :
        ( /\ miss.h = "emissions" /\ hit.h = "emissions"
          /\ miss.pc = "done" /\ hit.pc = "done"
          /\ miss.status = 200 /\ hit.status = 200
          /\ miss.q = hit.q
          /\ Did(miss, "db_query") /\ ~Did(hit, "db_query") ) =>
            hit.body[1] = SerializeData(miss.body[1])

RECURSIVE SumSeq(_)
\* The sum of a sequence of numbers.
SumSeq(s) == IF s = <<>> THEN 0 ELSE s[1] + SumSeq(Tail(s))

\* C34: on the store's clock, where a call stands at the instant of its INCR
\* (the value INCR returns decides its admission), any `window` consecutive
\* seconds hold at most 2 x limit - 1 admitted calls on one key, in every
\* interleaving of calls, expire round trips and expiries.
C34_BurstBound ==
    SumSeq(hist[CountedPair].past) + AdmittedNow <= 2 * Counted[2] - 1

\* The bound is met: limit - 1 admitted calls in the last second of a
\* counter and `limit` in the first second of the next one.
C34_Witness ==
    /\ hist[CountedPair].past[1] = Counted[2] - 1
    /\ AdmittedNow = Counted[2]
    /\ SumSeq(hist[CountedPair].past) + AdmittedNow = 2 * Counted[2] - 1

RECURSIVE PagesFrom(_, _)
\* The pages a client gets from the database when it asks q and then goes on
\* with the next_cursor of each response as the cursor, until next_cursor is
\* null (or after n more requests), put one after the other.
PagesFrom(q, n) ==
    LET response == EmissionsResponse(q)
    IN  IF response.next_cursor = None \/ n = 0 THEN response.data
        ELSE response.data
                \o PagesFrom([q EXCEPT !.cursor = Some(response.next_cursor[1].v)],
                             n - 1)

\* C35: a traversal that starts without a cursor, with fixed filters and a
\* fixed limit of one or more, and whose pages all come from the database,
\* yields every matching record exactly once, in ascending id order.
C35_TraversalComplete ==
    \A r \in Handled :
        (FromDatabase(r) /\ r.status = 200 /\ r.q.cursor = None /\ r.q.limit >= 1) =>
            LET first == r.body[1]
                rest == IF first.next_cursor = None THEN <<>>
                        ELSE PagesFrom(
                                [r.q EXCEPT !.cursor = Some(first.next_cursor[1].v)],
                                Len(Table))
            IN  first.data \o rest = SerializeRows(Matching(r.q))

\* The first page of a traversal of the whole table with one record a page.
C35_Witness ==
    \E r \in Handled :
        /\ FromDatabase(r)
        /\ r.status = 200
        /\ r.q.cursor = None
        /\ r.q.limit = 1
        /\ r.q.vehicle_make_name = None
        /\ r.q.year = None
        /\ r.body[1].next_cursor # None

\* C36 as stated: the caller of POST /vehicle_emissions/compare receives the
\* HTTP error that was raised inside the handler, with its status and detail.
C36_Orig ==
    \A r \in Handled :
        (r.h = "compare" /\ r.pc = "done" /\ r.raised # None) =>
            /\ r.status = r.raised[1].status_code
            /\ r.body = Some([detail |-> r.raised[1].detail])

\* C37 as stated: of the POST /register calls with the same username or
\* email that are handled side by side, one is answered 'User registered
\* successfully' and every other one the 400 'Username or email already
\* registered'; no call is answered anything else.
C37_Orig ==
    \A r \in Handled :
        (r.h = "register" /\ r.pc = "done") =>
            \/ r.status = 200 /\ r.detail = "User registered successfully"
            \/ r.status = 400 /\ r.detail = "Username or email already registered"

\* C38 as stated: when startup fails before redis_cache.connect() has run,
\* the teardown does not call close() on the client that was never created,
\* and the error that leaves the lifespan is the startup error.
C38_Orig ==
    app.phase = "failed" =>
        (app.closeOnNone = 0 /\ app.error = StartupError)

====
